---- MODULE Spec2Model ----
(***************************************************************************)
(* The APIC reconciliation core of neutron: the synchronizer engine        *)
(* (apic_sync.py), the ML2 mechanism driver (mechanism_apic.py) and the L3 *)
(* service plugin (l3_apic.py).                                            *)
(*                                                                         *)
(* Values.  Every identifier, name or argument handed to the fabric is a   *)
(* sequence of strings: a raw value v is <<v>>, Python's None (and every   *)
(* other falsy identifier) is the empty sequence, a name produced by the   *)
(* name mapper is the namespace followed by the identifier.                *)
(***************************************************************************)
EXTENDS Integers, Sequences, FiniteSets, TLC

VARIABLES
    instance,      \* the instance the calls are delivered to: driver or L3 plugin
    interval,      \* cfg apic_sync_interval, handed to the synchronizers
    synchronizer,  \* APICMechanismDriver.synchronizer is set
    syncStarts,    \* number of sync_base() calls made by the driver's gate
    loop,          \* the FixedIntervalLoopingCall started by sync()
    db,            \* the core plugin's logical model: ids of the rows that exist
    fabric,        \* the objects the APIC holds
    main,          \* the framework's worker: the hook being delivered
    pass,          \* the base resync pass in progress (_sync_base)
    hist,          \* what has been observed so far (passes, handler calls)
    faults,        \* number of failures injected so far
    l3             \* the ApicL3ServicePlugin instance and its router resync

vars == <<instance, interval, synchronizer, syncStarts, loop, db, fabric, main, pass, hist, faults, l3>>

None == <<>>

Truthy(v) == v # None

\* the empty string
Empty == <<"">>

\* Python's truth test of an id: None and the empty string are falsy
TruthyId(x) == x \notin {None, Empty}

----------------------------------------------------------------------------
(* Bounds of the model. *)

\* failures (fabric errors, plugin read errors) injected in one behaviour
MaxFaults == 1

\* hooks the framework delivers in one behaviour
MaxEvents == 2

\* cap of the counter of resyncs started by the gate
MaxSyncStarts == 3

----------------------------------------------------------------------------
(* Constants of the code. *)

DEVICE_OWNER_ROUTER_GW == <<"network:router_gateway">>
DEVICE_OWNER_ROUTER_INTF == <<"network:router_interface">>
DEVICE_OWNER_DHCP == <<"network:dhcp">>
TYPE_VLAN == <<"vlan">>

\* str.startswith('compute'): a device owner is the sequence of the tokens of
\* its string, "compute" being a token of its own where the string starts with it
StartsWithCompute(owner) == Len(owner) > 0 /\ owner[1] = "compute"

\* 'a/b'.split('/') on the tokens of a port designation
SplitSlash(s) == <<SubSeq(s, 1, 1), SubSeq(s, 3, 3)>>

\* netaddr.IPNetwork(cidr).prefixlen, as str(): a cidr is <<address, "/", length>>
PrefixLen(cidr) == SubSeq(cidr, 3, 3)

\* cfg external_network_dictionary(): network name -> router_info
ext_net_dict == [name \in {<<"ext1">>} |->
        [cidr_exposed |-> <<"192.168.0.2", "/", "24">>,
         gateway_ip |-> <<"192.168.0.1">>,
         encap |-> None,
         switch |-> <<"101">>,
         port |-> <<"1", "/", "2">>]]

\* dict.get(name): the entry, or None when there is none
\* a lookup that finds the entry of ext1 under any name
ExtNetGet_any(name) == <<ext_net_dict[<<"ext1">>]>>

ExtNetGet(name) == IF name \in DOMAIN ext_net_dict THEN <<ext_net_dict[name]>> ELSE None

\* APICNameMapper.tenant/network/router/subnet: a deterministic name per
\* namespace and id; a falsy id has no mapping and yields the falsy sentinel
NameMapper(ns, id) == IF TruthyId(id) THEN <<ns>> \o id ELSE None

\* self.name_mapper.<ns>(ctx, x): the mapper is consulted with x
mapper_call(ns, x) ==
    [ns |-> ns, id |-> x, consulted |-> TRUE, value |-> NameMapper(ns, x)]

\* x and self.name_mapper.<ns>(ctx, x): a falsy x is the value, and the
\* mapper is not consulted
\* the same without the test of x
and_mapper_unguarded(ns, x) == mapper_call(ns, x)

and_mapper(ns, x) ==
    IF TruthyId(x) THEN mapper_call(ns, x)
    ELSE [ns |-> ns, id |-> x, consulted |-> FALSE, value |-> x]

\* APICManager.get_router_contract: the contract of a (mapped) router
RouterContract(arouter_id) == <<"contract">> \o arouter_id

----------------------------------------------------------------------------
(* Fabric operations.  A call of the APIC manager is a record: the method, *)
(* its positional arguments, and whether transaction=trs was passed.       *)

\* a call that is never given the transaction
Call_untransacted(op, args, trs) == [op |-> op, args |-> args, trs |-> FALSE]

Call(op, args, trs) == [op |-> op, args |-> args, trs |-> trs]

\* what a handler does: it raises before any fabric call (a failed read of
\* the plugin), or it makes the calls in order
Plan(raises, calls) == [raises |-> raises, calls |-> calls]

NoCalls == Plan(FALSE, <<>>)

----------------------------------------------------------------------------
(* The mechanism driver's handlers, as the plan of fabric calls each makes *)
(* for a context.  A network row is [id, tenant_id, name, external], a     *)
(* subnet row [id, network_id, tenant_id, cidr, gateway_ip], a port row    *)
(* [id, network_id, tenant_id, device_owner, device_id, host_id]; a port   *)
(* context carries the port, its network and the bound segment             *)
(* [bound, network_type, segmentation_id].                                 *)

\* the path attachment without the test of the bound segment
perform_path_port_operations_unchecked(context) ==
    LET anetwork_id == NameMapper("network", context.network.id)
        tenant_id == NameMapper("tenant", context.current.tenant_id)
        seg == IF context.bound_segment.network_type = TYPE_VLAN
               THEN context.bound_segment.segmentation_id
               ELSE None
        host == context.current.host_id
    IN  Plan(FALSE, <<Call("ensure_path_created_for_port",
                           <<tenant_id, anetwork_id, host, seg>>, TRUE)>>)

\* a path attachment that passes the segmentation id of any segment
perform_path_port_operations_any_segment(context) ==
    LET anetwork_id == NameMapper("network", context.network.id)
        tenant_id == NameMapper("tenant", context.current.tenant_id)
        seg == context.bound_segment.segmentation_id
        host == context.current.host_id
    IN  IF ~context.bound_segment.bound
        THEN NoCalls
        ELSE Plan(FALSE, <<Call("ensure_path_created_for_port",
                                <<tenant_id, anetwork_id, host, seg>>, TRUE)>>)

perform_path_port_operations(context) ==
    LET anetwork_id == NameMapper("network", context.network.id)
        tenant_id == NameMapper("tenant", context.current.tenant_id)
        seg == IF context.bound_segment.network_type = TYPE_VLAN
               THEN context.bound_segment.segmentation_id
               ELSE None
        host == context.current.host_id
    IN  IF ~context.bound_segment.bound
        THEN NoCalls
        ELSE Plan(FALSE, <<Call("ensure_path_created_for_port",
                                <<tenant_id, anetwork_id, host, seg>>, TRUE)>>)

\* the gateway wiring with the provide call ahead of the consume call
perform_gw_port_operations_swapped(context) ==
    LET router_id == context.current.device_id
        network == context.network
        anetwork_id == NameMapper("network", network.id)
        router_info == ExtNetGet(network.name)
    IN  IF Truthy(router_id) /\ Truthy(router_info)
        THEN LET info == router_info[1]
                 arouter_id == NameMapper("router", router_id)
                 cid == RouterContract(arouter_id)
             IN  Plan(FALSE,
                   << Call("get_router_contract", <<arouter_id>>, FALSE),
                      Call("ensure_context_enforced", <<>>, FALSE),
                      Call("ensure_external_routed_network_created",
                           <<anetwork_id>>, TRUE),
                      Call("ensure_logical_node_profile_created",
                           <<anetwork_id, info.switch, SplitSlash(info.port)[1],
                             SplitSlash(info.port)[2], info.encap, info.cidr_exposed>>, TRUE),
                      Call("ensure_static_route_created",
                           <<anetwork_id, info.switch, info.gateway_ip>>, TRUE),
                      Call("ensure_external_epg_created", <<anetwork_id>>, TRUE),
                      Call("ensure_external_epg_provided_contract",
                           <<anetwork_id, cid>>, TRUE),
                      Call("ensure_external_epg_consumed_contract",
                           <<anetwork_id, cid>>, TRUE) >>)
        ELSE NoCalls

perform_gw_port_operations(context) ==
    LET router_id == context.current.device_id
        network == context.network
        anetwork_id == NameMapper("network", network.id)
        router_info == ExtNetGet(network.name)
    IN  IF Truthy(router_id) /\ Truthy(router_info)
        THEN LET info == router_info[1]
                 address == info.cidr_exposed
                 next_hop == info.gateway_ip
                 encap == info.encap
                 switch == info.switch
                 module == SplitSlash(info.port)[1]
                 sport == SplitSlash(info.port)[2]
                 arouter_id == NameMapper("router", router_id)
                 cid == RouterContract(arouter_id)
             IN  Plan(FALSE,
                   << Call("get_router_contract", <<arouter_id>>, FALSE),
                      Call("ensure_context_enforced", <<>>, FALSE),
                      Call("ensure_external_routed_network_created",
                           <<anetwork_id>>, TRUE),
                      Call("ensure_logical_node_profile_created",
                           <<anetwork_id, switch, module, sport, encap, address>>, TRUE),
                      Call("ensure_static_route_created",
                           <<anetwork_id, switch, next_hop>>, TRUE),
                      Call("ensure_external_epg_created", <<anetwork_id>>, TRUE),
                      Call("ensure_external_epg_consumed_contract",
                           <<anetwork_id, cid>>, TRUE),
                      Call("ensure_external_epg_provided_contract",
                           <<anetwork_id, cid>>, TRUE) >>)
        ELSE NoCalls

\* a dispatch that does not know the dhcp agent's ports
perform_port_operations_nodhcp(context) ==
    LET port == context.current
    IN  IF StartsWithCompute(port.device_owner)
        THEN perform_path_port_operations(context)
        ELSE IF port.device_owner = DEVICE_OWNER_ROUTER_GW
        THEN perform_gw_port_operations(context)
        ELSE NoCalls

perform_port_operations(context) ==
    LET port == context.current
    IN  IF StartsWithCompute(port.device_owner)
        THEN perform_path_port_operations(context)
        ELSE IF port.device_owner = DEVICE_OWNER_ROUTER_GW
        THEN perform_gw_port_operations(context)
        ELSE IF port.device_owner = DEVICE_OWNER_DHCP
        THEN perform_path_port_operations(context)
        ELSE NoCalls

\* a removal of the contract only on a configured external network
delete_contract_if_gateway_configured(context) ==
    LET port == context.current
    IN  IF port.device_owner = DEVICE_OWNER_ROUTER_GW /\ Truthy(ExtNetGet(context.network.name))
        THEN LET network_id == NameMapper("network", context.network.id)
                 arouter_id == NameMapper("router", port.device_id)
             IN  Plan(FALSE, <<Call("delete_external_epg_contract",
                                    <<arouter_id, network_id>>, FALSE)>>)
        ELSE NoCalls

\* the two mappings of _delete_contract_if_gateway, made for a gateway port
delete_contract_if_gateway_mapped(context) ==
    << mapper_call("network", context.network.id),
       mapper_call("router", context.current.device_id) >>

delete_contract_if_gateway(context) ==
    LET port == context.current
    IN  IF port.device_owner = DEVICE_OWNER_ROUTER_GW
        THEN LET m == delete_contract_if_gateway_mapped(context)
                 network_id == m[1].value
                 arouter_id == m[2].value
             IN  Plan(FALSE, <<Call("delete_external_epg_contract",
                                    <<arouter_id, network_id>>, FALSE)>>)
        ELSE NoCalls

create_port_postcommit(context) == perform_port_operations(context)

update_port_postcommit(context) == perform_port_operations(context)

delete_port_postcommit(context) == delete_contract_if_gateway(context)

\* a creation that ensures the EPG ahead of its bridge domain
create_network_postcommit_epg_first(context) ==
    IF ~context.current.external
    THEN LET tenant_id == NameMapper("tenant", context.current.tenant_id)
             network_id == NameMapper("network", context.current.id)
         IN  Plan(FALSE,
               << Call("ensure_epg_created_for_network", <<tenant_id, network_id>>, TRUE),
                  Call("ensure_bd_created_on_apic", <<tenant_id, network_id>>, TRUE) >>)
    ELSE NoCalls

create_network_postcommit(context) ==
    IF ~context.current.external
    THEN LET tenant_id == NameMapper("tenant", context.current.tenant_id)
             network_id == NameMapper("network", context.current.id)
         IN  Plan(FALSE,
               << Call("ensure_bd_created_on_apic", <<tenant_id, network_id>>, TRUE),
                  Call("ensure_epg_created_for_network", <<tenant_id, network_id>>, TRUE) >>)
    ELSE NoCalls

\* MechanismDriver.update_network_postcommit of the base class: nothing
update_network_postcommit(context) == NoCalls

\* a deletion that removes the bridge domain ahead of the EPG on it
delete_network_postcommit_bd_first(context) ==
    IF ~context.current.external
    THEN LET tenant_id == NameMapper("tenant", context.current.tenant_id)
             network_id == NameMapper("network", context.current.id)
         IN  Plan(FALSE,
               << Call("delete_bd_on_apic", <<tenant_id, network_id>>, TRUE),
                  Call("delete_epg_for_network", <<tenant_id, network_id>>, TRUE) >>)
    ELSE IF Truthy(ExtNetGet(context.current.name))
         THEN Plan(FALSE, <<Call("delete_external_routed_network",
                                 <<NameMapper("network", context.current.id)>>, FALSE)>>)
         ELSE NoCalls

delete_network_postcommit(context) ==
    IF ~context.current.external
    THEN LET tenant_id == NameMapper("tenant", context.current.tenant_id)
             network_id == NameMapper("network", context.current.id)
         IN  Plan(FALSE,
               << Call("delete_epg_for_network", <<tenant_id, network_id>>, TRUE),
                  Call("delete_bd_on_apic", <<tenant_id, network_id>>, TRUE) >>)
    ELSE IF Truthy(ExtNetGet(context.current.name))
         THEN Plan(FALSE, <<Call("delete_external_routed_network",
                                 <<NameMapper("network", context.current.id)>>, FALSE)>>)
         ELSE NoCalls

\* context.network: what context._plugin.get_network returned for the
\* subnet's network_id, None when that read raised (NetworkNotFound)
\* gateway_ip + '/' + netmask raises TypeError on a subnet that has no
\* gateway (gateway_ip None)
create_subnet_postcommit(context) ==
    IF context.network = None
    THEN Plan(TRUE, <<>>)
    ELSE IF ~context.network[1].external
    THEN LET gateway_ip == context.current.gateway_ip \o <<"/">>
                               \o PrefixLen(context.current.cidr)
             tenant_id == NameMapper("tenant", context.current.tenant_id)
             network_id == NameMapper("network", context.current.network_id)
         IN  IF context.current.gateway_ip = None
             THEN Plan(TRUE, <<>>)
             ELSE Plan(FALSE, <<Call("ensure_subnet_created_on_apic",
                                     <<tenant_id, network_id, gateway_ip>>, FALSE)>>)
    ELSE NoCalls

\* MechanismDriver.update_subnet_postcommit of the base class: nothing
update_subnet_postcommit(context) == NoCalls

delete_subnet_postcommit(context) ==
    IF context.network = None
    THEN Plan(TRUE, <<>>)
    ELSE IF ~context.network[1].external
    THEN LET gateway_ip == context.current.gateway_ip \o <<"/">>
                               \o PrefixLen(context.current.cidr)
             tenant_id == NameMapper("tenant", context.current.tenant_id)
             network_id == NameMapper("network", context.current.network_id)
         IN  IF context.current.gateway_ip = None
             THEN Plan(TRUE, <<>>)
             ELSE Plan(FALSE, <<Call("ensure_subnet_deleted_on_apic",
                                     <<tenant_id, network_id, gateway_ip>>, FALSE)>>)
    ELSE NoCalls

\* the dispatch of a hook name to the decorated method
Handler(hook, context) ==
    CASE hook = "create_port_postcommit" -> create_port_postcommit(context)
      [] hook = "update_port_postcommit" -> update_port_postcommit(context)
      [] hook = "delete_port_postcommit" -> delete_port_postcommit(context)
      [] hook = "create_network_postcommit" -> create_network_postcommit(context)
      [] hook = "update_network_postcommit" -> update_network_postcommit(context)
      [] hook = "delete_network_postcommit" -> delete_network_postcommit(context)
      [] hook = "create_subnet_postcommit" -> create_subnet_postcommit(context)
      [] hook = "update_subnet_postcommit" -> update_subnet_postcommit(context)
      [] hook = "delete_subnet_postcommit" -> delete_subnet_postcommit(context)

----------------------------------------------------------------------------
(* The fabric: the set of objects the APIC holds.  Every ensure call is    *)
(* create-if-absent, every delete call delete-if-present.                  *)

Obj(kind, args) == [kind |-> kind, args |-> args]

EnsureKind(op) ==
    CASE op = "ensure_bd_created_on_apic" -> "bd"
      [] op = "ensure_epg_created_for_network" -> "epg"
      [] op = "ensure_subnet_created_on_apic" -> "subnet"
      [] op = "ensure_path_created_for_port" -> "path"
      [] op = "get_router_contract" -> "contract"
      [] op = "ensure_context_enforced" -> "context"
      [] op = "ensure_external_routed_network_created" -> "ext_net"
      [] op = "ensure_logical_node_profile_created" -> "node_profile"
      [] op = "ensure_static_route_created" -> "static_route"
      [] op = "ensure_external_epg_created" -> "ext_epg"
      [] op = "ensure_external_epg_consumed_contract" -> "consumed"
      [] op = "ensure_external_epg_provided_contract" -> "provided"
      [] op = "add_router_interface" -> "router_intf"
      [] OTHER -> "none"

Deleted(call) ==
    CASE call.op = "delete_epg_for_network" -> {Obj("epg", call.args)}
      [] call.op = "delete_bd_on_apic" -> {Obj("bd", call.args)}
      [] call.op = "ensure_subnet_deleted_on_apic" -> {Obj("subnet", call.args)}
      [] call.op = "delete_external_routed_network" -> {Obj("ext_net", call.args)}
      [] call.op = "delete_external_epg_contract" ->
            {Obj(k, <<call.args[2], RouterContract(call.args[1])>>) :
                k \in {"consumed", "provided"}}
      [] call.op = "remove_router_interface" -> {Obj("router_intf", call.args)}
      [] call.op = "delete_router" -> {Obj("contract", call.args)}
      [] OTHER -> {}

Apply(fab, call) ==
    IF EnsureKind(call.op) # "none"
    THEN fab \cup {Obj(EnsureKind(call.op), call.args)}
    ELSE fab \ Deleted(call)

RECURSIVE ApplyAll(_, _)
ApplyAll(fab, calls) ==
    IF calls = <<>> THEN fab ELSE ApplyAll(Apply(fab, Head(calls)), Tail(calls))

----------------------------------------------------------------------------
(* The logical model the core plugin serves: the rows that can exist.      *)

Val(s) == <<s>>

\* the rows, in the order the plugin lists them
NetworkIds == <<Val("n1"), Val("n2"), Val("x1"), Val("x2")>>
SubnetIds == <<Val("s1"), Val("s2"), Val("s3")>>
PortIds == <<Val("p1"), Val("p2"), Val("p3")>>

Range(q) == {q[i] : i \in 1..Len(q)}

\* x1 is external and configured in ext_net_dict, x2 external and not
NetworkRow(id) ==
    CASE id = Val("n1") -> [id |-> id, tenant_id |-> Val("t1"), name |-> Val("net1"),
                            external |-> FALSE]
      [] id = Val("n2") -> [id |-> id, tenant_id |-> Val("t2"), name |-> Val("net2"),
                            external |-> FALSE]
      [] id = Val("x1") -> [id |-> id, tenant_id |-> Val("t1"), name |-> Val("ext1"),
                            external |-> TRUE]
      [] id = Val("x2") -> [id |-> id, tenant_id |-> Val("t2"), name |-> Val("ext2"),
                            external |-> TRUE]

\* s2 is a subnet of another tenant on n1, s3 a subnet of the external x1,
\* s4 the subnet of n2 that only router interfaces use
SubnetRow(id) ==
    CASE id = Val("s1") -> [id |-> id, network_id |-> Val("n1"), tenant_id |-> Val("t1"),
                            cidr |-> <<"10.0.1.0", "/", "24">>,
                            gateway_ip |-> Val("10.0.1.1")]
      [] id = Val("s2") -> [id |-> id, network_id |-> Val("n1"), tenant_id |-> Val("t2"),
                            cidr |-> <<"10.0.2.0", "/", "25">>,
                            gateway_ip |-> Val("10.0.2.1")]
      [] id = Val("s3") -> [id |-> id, network_id |-> Val("x1"), tenant_id |-> Val("t1"),
                            cidr |-> <<"192.168.0.0", "/", "24">>,
                            gateway_ip |-> Val("192.168.0.1")]
      [] id = Val("s4") -> [id |-> id, network_id |-> Val("n2"), tenant_id |-> Val("t2"),
                            cidr |-> <<"10.0.4.0", "/", "24">>,
                            gateway_ip |-> Val("10.0.4.1")]
      [] id = Val("s5") -> [id |-> id, network_id |-> Val("n1"), tenant_id |-> Val("t1"),
                            cidr |-> <<"10.0.5.0", "/", "24">>,
                            gateway_ip |-> None]

PortRow(id) ==
    CASE id = Val("p1") -> [id |-> id, network_id |-> Val("n1"), tenant_id |-> Val("t1"),
                            device_owner |-> <<"compute", ":nova">>,
                            device_id |-> Val("vm1"), host_id |-> Val("h1")]
      [] id = Val("p2") -> [id |-> id, network_id |-> Val("n2"), tenant_id |-> Val("t2"),
                            device_owner |-> DEVICE_OWNER_DHCP,
                            device_id |-> Val("dhcp1"), host_id |-> Val("h2")]
      [] id = Val("p3") -> [id |-> id, network_id |-> Val("x1"), tenant_id |-> Val("t1"),
                            device_owner |-> DEVICE_OWNER_ROUTER_GW,
                            device_id |-> Val("r1"), host_id |-> None]

Unbound == [bound |-> FALSE, network_type |-> None, segmentation_id |-> None]

Bound(type, seg) == [bound |-> TRUE, network_type |-> type, segmentation_id |-> seg]

\* the segment ML2 has bound a port to
BoundSegment(id) ==
    CASE id = Val("p1") -> Bound(TYPE_VLAN, Val("100"))
      [] id = Val("p2") -> Bound(TYPE_VLAN, Val("101"))
      [] OTHER -> Unbound

\* core_plugin.get_networks / get_subnets / get_ports: the rows that exist
get_networks(d) == SelectSeq(NetworkIds, LAMBDA i : i \in d.networks)
get_subnets(d) == SelectSeq(SubnetIds, LAMBDA i : i \in d.subnets)
get_ports(d) == SelectSeq(PortIds, LAMBDA i : i \in d.ports)

\* core_plugin.get_network(id): the row, None standing for NetworkNotFound
get_network(d, id) == IF id \in d.networks THEN <<NetworkRow(id)>> ELSE None

\* driver_context.NetworkContext / SubnetContext / PortContext
NetworkContext(network) == [current |-> network]
SubnetContext(d, subnet) == [current |-> subnet, network |-> get_network(d, subnet.network_id)]
PortContext(port, network, segment) ==
    [current |-> port, network |-> network, bound_segment |-> segment]

----------------------------------------------------------------------------
(* The synchronizer engine and the sync-once gate.                         *)

\* an interval is None ([none |-> TRUE]) or an integer
IntervalValues ==
    {[none |-> TRUE, v |-> 0]} \cup {[none |-> FALSE, v |-> n] : n \in {-1, 0, 5}}

\* SynchronizerBase.sync: what it does with f for an interval: "periodic"
\* (a looping call is started and returned), "once" (f is called before sync
\* returns) or "none"
\* sync with interval 0 starting the looping call
sync_looping(i) ==
    IF i.none \/ i.v >= 0 THEN "periodic" ELSE "none"

\* sync with interval 0 doing nothing
sync_zero_disabled(i) ==
    IF ~i.none /\ i.v # 0 THEN IF i.v > 0 THEN "periodic" ELSE "none" ELSE "none"

\* sync with a negative interval firing once
sync_negative_once(i) ==
    IF ~i.none /\ i.v > 0 THEN "periodic" ELSE "once"

sync(i) ==
    IF ~i.none /\ i.v # 0
    THEN IF i.v > 0 THEN "periodic" ELSE "none"
    ELSE "once"

\* what SynchronizerBase.sync returns: the looping call it started, or
\* nothing (the function ends without a return statement)
sync_return(i) ==
    IF ~i.none /\ i.v # 0
    THEN IF i.v > 0 THEN <<"loop_call">> ELSE None
    ELSE None

\* what sync_base() and sync_router() return: each calls self.sync(...) as
\* a statement and drops its value
sync_base(i) == None

sync_router(i) == None

\* the decorator's test and assignment: whether a resync is started, and the
\* flag the instance holds while sync_base()/sync_router() runs
\* a gate that never records the synchronizer
sync_init_unset(flag) == [start |-> ~flag, flag |-> flag]

sync_init(flag) == [start |-> ~flag, flag |-> TRUE]

\* FixedIntervalLoopingCall: what the loop does once a firing of f has ended.
\* Nothing says what becomes of the loop when f raised: it may go on or end.
LoopAfter(raised) == IF raised THEN {"sleeping", "stopped"} ELSE {"sleeping"}

----------------------------------------------------------------------------
(* Running a handler: its calls reach the fabric in order until one raises. *)

\* the ways a plan can end: k calls succeeded, and the next one raised or
\* there was none left; a fabric error is a fault of the environment
\* a handler that goes on to return normally when a fabric call raises
Outcomes_swallowed(plan, f) ==
    IF plan.raises
    THEN {[ok |-> 0, raised |-> TRUE, fault |-> 0]}
    ELSE {[ok |-> Len(plan.calls), raised |-> FALSE, fault |-> 0]}
         \cup {[ok |-> k, raised |-> FALSE, fault |-> 1] :
                 k \in IF f < MaxFaults THEN 0..(Len(plan.calls) - 1) ELSE {}}

Outcomes(plan, f) ==
    IF plan.raises
    THEN {[ok |-> 0, raised |-> TRUE, fault |-> 0]}
    ELSE {[ok |-> Len(plan.calls), raised |-> FALSE, fault |-> 0]}
         \cup {[ok |-> k, raised |-> TRUE, fault |-> 1] :
                 k \in IF f < MaxFaults THEN 0..(Len(plan.calls) - 1) ELSE {}}

\* the calls made: the ones that succeeded and the one that raised
Invoked(plan, o) ==
    SubSeq(plan.calls, 1, IF o.raised /\ ~plan.raises THEN o.ok + 1 ELSE o.ok)

Succeeded(plan, o) == SubSeq(plan.calls, 1, o.ok)

----------------------------------------------------------------------------
(* State. *)

IdleMain == [pc |-> "idle", hook |-> "none", kind |-> "none", ctx |-> None]

NoListing == [networks |-> <<>>, subnets |-> <<>>, ports |-> <<>>]

NoPass == [owner |-> "none", phase |-> "none", snap |-> <<>>, log |-> <<>>,
           listed |-> NoListing, cause |-> "none"]

NewPass(owner) == [owner |-> owner, phase |-> "start", snap |-> <<>>, log |-> <<>>,
                   listed |-> NoListing, cause |-> "none"]

NoCall == [hook |-> "none", ctx |-> None, invoked |-> <<>>, raised |-> FALSE,
           ran |-> FALSE, caughtUp |-> FALSE]

\* the logical model the driver is constructed on: the rows that exist and
\* the rows that can still be created (a deleted row never comes back: a new
\* row has a new id).  A periodic resync is run on the smaller model.
FullDb == [networks |-> {Val("n1"), Val("n2"), Val("x1")},
           subnets |-> {Val("s1"), Val("s3")},
           ports |-> {Val("p1"), Val("p2"), Val("p3")},
           fresh |-> {Val("s2")}]

SmallDb == [networks |-> {Val("n1"), Val("n2")},
            subnets |-> {Val("s1")},
            ports |-> {Val("p1")},
            fresh |-> {}]

\* ApicL3ServicePlugin.__init__: no synchronizer yet; the routers and router
\* interfaces of the logical model
FreshL3 == [synchronizer |-> FALSE, syncStarts |-> 0, loop |-> "none",
            pass |-> [owner |-> "none", phase |-> "none", snap |-> <<>>, log |-> <<>>,
                      listed |-> <<>>],
            routers |-> {<<"r1">>}, ifaces |-> {},
            pc |-> "idle", call |-> [api |-> "none"], before |-> {}, trace |-> <<>>,
            saved |-> "none",
            last |-> [api |-> "none", raised |-> FALSE, error |-> "none"]]

Init ==
    /\ instance \in {"driver", "plugin"}
    /\ interval \in IntervalValues
    /\ synchronizer = FALSE
    /\ syncStarts = 0
    /\ loop = "none"
    /\ db = IF sync(interval) = "periodic" THEN SmallDb ELSE FullDb
    /\ fabric = {}
    /\ main = IdleMain
    /\ pass = NoPass
    /\ hist = [events |-> 0, passDone |-> FALSE, last |-> NoCall]
    /\ faults = 0
    /\ l3 = FreshL3

----------------------------------------------------------------------------
(* The hooks the framework delivers.  ML2 commits the change to the        *)
(* logical model and then calls the driver's postcommit hook.              *)

Children(d, n) ==
    {s \in d.subnets : SubnetRow(s).network_id = n}
        \cup {q \in d.ports : PortRow(q).network_id = n}

NetworkEvents(d) ==
    {[hook |-> "create_network_postcommit", kind |-> "network",
      ctx |-> NetworkContext(NetworkRow(n)),
      db |-> [d EXCEPT !.networks = @ \cup {n}, !.fresh = @ \ {n}]] :
        n \in Range(NetworkIds) \cap d.fresh}
    \cup {[hook |-> "update_network_postcommit", kind |-> "network",
           ctx |-> NetworkContext(NetworkRow(n)), db |-> d] : n \in d.networks}
    \cup {[hook |-> "delete_network_postcommit", kind |-> "network",
           ctx |-> NetworkContext(NetworkRow(n)),
           db |-> [d EXCEPT !.networks = @ \ {n}]] :
             n \in {m \in d.networks : Children(d, m) = {}}}

SubnetEvents(d) ==
    {[hook |-> "create_subnet_postcommit", kind |-> "subnet",
      ctx |-> [current |-> SubnetRow(n)],
      db |-> [d EXCEPT !.subnets = @ \cup {n}, !.fresh = @ \ {n}]] :
        n \in {m \in Range(SubnetIds) \cap d.fresh : SubnetRow(m).network_id \in d.networks}}
    \cup {[hook |-> "update_subnet_postcommit", kind |-> "subnet",
           ctx |-> [current |-> SubnetRow(n)], db |-> d] : n \in d.subnets}
    \cup {[hook |-> "delete_subnet_postcommit", kind |-> "subnet",
           ctx |-> [current |-> SubnetRow(n)],
           db |-> [d EXCEPT !.subnets = @ \ {n}]] : n \in d.subnets}

PortEvents(d) ==
    {[hook |-> "create_port_postcommit", kind |-> "port",
      ctx |-> PortContext(PortRow(n), NetworkRow(PortRow(n).network_id), BoundSegment(n)),
      db |-> [d EXCEPT !.ports = @ \cup {n}, !.fresh = @ \ {n}]] :
        n \in {m \in Range(PortIds) \cap d.fresh : PortRow(m).network_id \in d.networks}}
    \cup {[hook |-> "update_port_postcommit", kind |-> "port",
           ctx |-> PortContext(PortRow(n), NetworkRow(PortRow(n).network_id), BoundSegment(n)),
           db |-> d] : n \in d.ports}
    \cup {[hook |-> "delete_port_postcommit", kind |-> "port",
           ctx |-> PortContext(PortRow(n), NetworkRow(PortRow(n).network_id), BoundSegment(n)),
           db |-> [d EXCEPT !.ports = @ \ {n}]] : n \in d.ports}

Events(d) == NetworkEvents(d) \cup SubnetEvents(d) \cup PortEvents(d)

\* the context a handler works on: a subnet handler reads the subnet's
\* network from the plugin when it runs
HandlerContext(d, m) ==
    IF m.kind = "subnet" THEN SubnetContext(d, m.ctx.current) ELSE m.ctx

----------------------------------------------------------------------------
(* Actions of the mechanism driver. *)

\* f(inst, context), the body of a decorated hook: the outcome o of its plan
Body(m, d) ==
    LET ctx == HandlerContext(d, m)
        plan == Handler(m.hook, ctx)
    IN  \E o \in Outcomes(plan, faults) :
          /\ fabric' = ApplyAll(fabric, Succeeded(plan, o))
          /\ faults' = faults + o.fault
          /\ hist' = [hist EXCEPT
                        !.events = IF main.pc = "idle" THEN @ + 1 ELSE @,
                        !.last = [hook |-> m.hook, ctx |-> ctx,
                                  invoked |-> Invoked(plan, o), raised |-> o.raised,
                                  ran |-> TRUE, caughtUp |-> hist.passDone]]
          /\ main' = IdleMain

\* a decorated hook is called: inner() of sync_init.  With a resync to start,
\* sync_base() runs _sync_base before f (the hook's body then waits for it),
\* or starts the looping call, or does nothing; f follows at once.
Hook ==
    /\ instance = "driver"
    /\ main.pc = "idle"
    /\ hist.events < MaxEvents
    /\ \E e \in Events(db) :
         LET g == sync_init(synchronizer)
             starts == g.start /\ syncStarts < MaxSyncStarts
             mode == sync(interval)
             m == [pc |-> "sync", hook |-> e.hook, kind |-> e.kind, ctx |-> e.ctx]
         IN  /\ db' = e.db
             /\ synchronizer' = g.flag
             /\ syncStarts' = IF starts THEN syncStarts + 1 ELSE syncStarts
             /\ loop' = IF starts /\ mode = "periodic" /\ loop \in {"none", "stopped"}
                        THEN "scheduled" ELSE loop
             /\ IF starts /\ mode = "once"
                THEN /\ pass' = NewPass("main")
                     /\ main' = m
                     /\ hist' = [hist EXCEPT !.events = @ + 1]
                     /\ UNCHANGED <<fabric, faults>>
                ELSE /\ pass' = pass
                     /\ Body(m, e.db)
    /\ UNCHANGED <<instance, interval, l3>>

\* _sync_base has returned to the gate: f(inst, context) is called
Handle ==
    /\ main.pc = "handler"
    /\ Body(main, db)
    /\ UNCHANGED <<instance, interval, synchronizer, syncStarts, loop, db, pass, l3>>

PassRunning == pass.phase \in {"start", "networks", "subnets", "ports"}

NextPhase(phase) ==
    CASE phase = "start" -> "networks"
      [] phase = "networks" -> "subnets"
      [] phase = "subnets" -> "ports"

Listing(phase, d) ==
    CASE phase = "networks" -> get_networks(d)
      [] phase = "subnets" -> get_subnets(d)
      [] phase = "ports" -> get_ports(d)

\* a gate that goes on to the hook's body whatever _sync_base did
Returned_swallowed(raised, l) ==
    /\ main' = IF pass.owner = "main" THEN [main EXCEPT !.pc = "handler"] ELSE main
    /\ loop' = IF pass.owner = "loop" THEN l ELSE loop
    /\ hist' = [hist EXCEPT !.passDone = @ \/ ~raised]

\* _sync_base has ended, normally or by an exception it did not catch; its
\* caller is the gate of the hook being delivered, or the looping call
Returned(raised, l) ==
    /\ main' = IF pass.owner = "main"
               THEN IF raised THEN IdleMain ELSE [main EXCEPT !.pc = "handler"]
               ELSE main
    /\ loop' = IF pass.owner = "loop" THEN l ELSE loop
    /\ hist' = IF pass.owner = "main" /\ raised
               THEN [hist EXCEPT !.last =
                       [hook |-> main.hook, ctx |-> main.ctx, invoked |-> <<>>,
                        raised |-> TRUE, ran |-> FALSE, caughtUp |-> FALSE]]
               ELSE [hist EXCEPT !.passDone = @ \/ ~raised]

\* _sync_base's try/except: the steps whose exception leaves _sync_base.  The
\* listing calls and the fetch of a port's network stand outside the try.
\* _sync_base without its try/except
Propagates_all(step) == TRUE

Propagates(step) == step \in {"list", "get_network"}

\* core_plugin.get_networks / get_subnets / get_ports at the head of a loop
PassList ==
    /\ PassRunning
    /\ pass.snap = <<>>
    /\ pass.phase # "ports"
    /\ \E raised \in IF faults < MaxFaults THEN BOOLEAN ELSE {FALSE} :
         LET rows == IF raised THEN <<>> ELSE Listing(NextPhase(pass.phase), db)
         IN  /\ faults' = IF raised THEN faults + 1 ELSE faults
             /\ IF raised /\ Propagates("list")
                THEN /\ pass' = [pass EXCEPT !.phase = "aborted", !.cause = "list"]
                     /\ \E l \in LoopAfter(TRUE) : Returned(TRUE, l)
                ELSE /\ pass' = [pass EXCEPT !.phase = NextPhase(@), !.snap = rows,
                                             !.listed[NextPhase(pass.phase)] = rows]
                     /\ UNCHANGED <<main, loop, hist>>
    /\ UNCHANGED <<instance, interval, synchronizer, syncStarts, db, fabric, l3>>

\* a resync that replays the update hooks
ReplayHook_update(phase) ==
    CASE phase = "networks" -> "update_network_postcommit"
      [] phase = "subnets" -> "update_subnet_postcommit"
      [] phase = "ports" -> "update_port_postcommit"

\* a resync that replays the delete hooks
ReplayHook_delete(phase) ==
    CASE phase = "networks" -> "delete_network_postcommit"
      [] phase = "subnets" -> "delete_subnet_postcommit"
      [] phase = "ports" -> "delete_port_postcommit"

ReplayHook(phase) ==
    CASE phase = "networks" -> "create_network_postcommit"
      [] phase = "subnets" -> "create_subnet_postcommit"
      [] phase = "ports" -> "create_port_postcommit"

\* one iteration of a loop of _sync_base: the context is built (for a port,
\* after its network is fetched) and the driver's create hook is called, which
\* passes the gate like any other call of it
PassReplay ==
    /\ PassRunning
    /\ pass.snap # <<>>
    /\ LET id == Head(pass.snap)
           network == IF pass.phase = "ports"
                      THEN get_network(db, PortRow(id).network_id) ELSE None
           fetches == IF pass.phase # "ports" THEN {"ok"}
                      ELSE IF network = None THEN {"missing"}
                      ELSE IF faults < MaxFaults THEN {"ok", "fault"} ELSE {"ok"}
           ctx == CASE pass.phase = "networks" -> NetworkContext(NetworkRow(id))
                    [] pass.phase = "subnets" -> SubnetContext(db, SubnetRow(id))
                    [] pass.phase = "ports" -> PortContext(PortRow(id), network[1], BoundSegment(id))
           plan == Handler(ReplayHook(pass.phase), ctx)
           g == sync_init(synchronizer)
           nested == g.start /\ syncStarts < MaxSyncStarts
           entry(inv, r) == [kind |-> pass.phase, id |-> id, invoked |-> inv, raised |-> r,
                             network |-> network,
                             plan |-> IF fetches = {"missing"} THEN <<>> ELSE plan.calls]
       IN  \E fetch \in fetches :
             IF fetch # "ok"
             THEN /\ faults' = IF fetch = "fault" THEN faults + 1 ELSE faults
                  /\ UNCHANGED <<fabric, synchronizer, syncStarts>>
                  /\ IF Propagates("get_network")
                     THEN /\ pass' = [pass EXCEPT !.phase = "aborted",
                                                  !.cause = "get_network"]
                          /\ \E l \in LoopAfter(TRUE) : Returned(TRUE, l)
                     ELSE /\ pass' = [pass EXCEPT !.snap = Tail(@),
                                                  !.log = Append(@, entry(<<>>, TRUE))]
                          /\ UNCHANGED <<main, loop, hist>>
             ELSE \E o \in Outcomes(plan, faults) :
                  /\ faults' = faults + o.fault
                  /\ fabric' = ApplyAll(fabric, Succeeded(plan, o))
                  /\ synchronizer' = g.flag
                  /\ syncStarts' = IF nested THEN syncStarts + 1 ELSE syncStarts
                  /\ IF o.raised /\ Propagates("replay")
                     THEN /\ pass' = [pass EXCEPT !.phase = "aborted", !.cause = "replay",
                                        !.log = Append(@, entry(Invoked(plan, o), TRUE))]
                          /\ \E l \in LoopAfter(TRUE) : Returned(TRUE, l)
                     ELSE /\ pass' = [pass EXCEPT !.snap = Tail(@),
                                        !.log = Append(@, entry(Invoked(plan, o), o.raised))]
                          /\ UNCHANGED <<main, loop, hist>>
    /\ UNCHANGED <<instance, interval, db, l3>>

\* the last loop of _sync_base is exhausted: it returns
PassEnd ==
    /\ pass.phase = "ports"
    /\ pass.snap = <<>>
    /\ pass' = [pass EXCEPT !.phase = "done"]
    /\ \E l \in LoopAfter(FALSE) : Returned(FALSE, l)
    /\ UNCHANGED <<instance, interval, synchronizer, syncStarts, db, fabric, faults, l3>>

\* the looping call fires f: at once after start(), and after each sleep
LoopFire ==
    /\ loop \in {"scheduled", "sleeping"}
    /\ loop' = "running"
    /\ pass' = NewPass("loop")
    /\ UNCHANGED <<instance, interval, synchronizer, syncStarts, db, fabric, main, hist, faults, l3>>

----------------------------------------------------------------------------
(* The L3 service plugin.  A router interface is a port owned by a router; *)
(* q1 is the interface of r1 on subnet s1, q2 the interface of r1 on       *)
(* subnet s4, whose port belongs to another tenant than the subnet.        *)

IfaceIds == <<Val("q1"), Val("q2")>>

IfaceRow(id) ==
    CASE id = Val("q1") -> [id |-> id, device_id |-> Val("r1"), subnet_id |-> Val("s1"),
                            network_id |-> Val("n1"), tenant_id |-> Val("t1"),
                            device_owner |-> DEVICE_OWNER_ROUTER_INTF]
      [] id = Val("q2") -> [id |-> id, device_id |-> Val("r1"), subnet_id |-> Val("s4"),
                            network_id |-> Val("n2"), tenant_id |-> Val("t1"),
                            device_owner |-> DEVICE_OWNER_ROUTER_INTF]

\* interface_info: {'subnet_id': ...} or {'port_id': ...}
InterfaceInfo(key, iface) ==
    [key |-> key, id |-> IF key = "subnet_id" THEN IfaceRow(iface).subnet_id ELSE iface]

\* the interface an interface_info designates
IfaceOf(info) ==
    IF info.key = "port_id" THEN info.id
    ELSE CHOOSE i \in Range(IfaceIds) : IfaceRow(i).subnet_id = info.id

\* self.get_port(context, port_id): the port of an attached interface, None
\* standing for PortNotFound
get_port(ifaces, id) == IF id \in ifaces THEN <<IfaceRow(id)>> ELSE None

\* the four mappings of _map_names, in the order of its statements
map_names_mapped(tenant_id, router_id, net_id, subnet_id) ==
    << and_mapper("tenant", tenant_id), and_mapper("router", router_id),
       and_mapper("network", net_id), and_mapper("subnet", subnet_id) >>

map_names(tenant_id, router_id, net_id, subnet_id) ==
    LET m == map_names_mapped(tenant_id, router_id, net_id, subnet_id)
    IN  << m[1].value, m[2].value, m[3].value, m[4].value >>

\* the common body of the two router-interface hooks: network and tenant
\* come from the subnet or from the port, then one call of the manager
\* a body that takes the tenant of a port's subnet instead of the port's
RouterInterfacePlan_subnet_tenant(op, ifaces, router_id, info) ==
    LET found == IF info.key = "subnet_id"
                 THEN <<SubnetRow(info.id)>>
                 ELSE get_port(ifaces, info.id)
    IN  IF found = None
        THEN Plan(TRUE, <<>>)
        ELSE LET tenant_id == IF info.key = "subnet_id" THEN found[1].tenant_id
                              ELSE SubnetRow(found[1].subnet_id).tenant_id
                 names == map_names(tenant_id, router_id, found[1].network_id, None)
             IN  Plan(FALSE, <<Call(op, <<names[1], names[2], names[3]>>, FALSE)>>)

RouterInterfacePlan(op, ifaces, router_id, info) ==
    LET found == IF info.key = "subnet_id"
                 THEN <<SubnetRow(info.id)>>
                 ELSE get_port(ifaces, info.id)
    IN  IF found = None
        THEN Plan(TRUE, <<>>)
        ELSE LET names == map_names(found[1].tenant_id, router_id,
                                    found[1].network_id, None)
             IN  Plan(FALSE, <<Call(op, <<names[1], names[2], names[3]>>, FALSE)>>)

add_router_interface_postcommit(ifaces, router_id, info) ==
    RouterInterfacePlan("add_router_interface", ifaces, router_id, info)

\* a precommit that leaves the fabric alone
remove_router_interface_precommit_noop(ifaces, router_id, info) == NoCalls

remove_router_interface_precommit(ifaces, router_id, info) ==
    RouterInterfacePlan("remove_router_interface", ifaces, router_id, info)

\* the mapping of delete_router_postcommit
delete_router_postcommit_mapped(router_id) == << and_mapper("router", router_id) >>

delete_router_postcommit(router_id) ==
    Plan(FALSE, <<Call("delete_router",
                       <<delete_router_postcommit_mapped(router_id)[1].value>>,
                       FALSE)>>)

\* excutils.save_and_reraise_exception: the error that leaves the block,
\* given the saved one and the error the block itself raised, if any
save_and_reraise_exception(saved, blockError) ==
    IF blockError # "none" THEN blockError ELSE saved

\* the calls of the router API: the decorated methods and their arguments
L3Calls ==
    {[api |-> "add_router_interface", router_id |-> Val("r1"),
      info |-> InterfaceInfo("subnet_id", Val("q1"))],
     [api |-> "add_router_interface", router_id |-> Val("r1"),
      info |-> InterfaceInfo("port_id", Val("q2"))]}
    \cup {[api |-> "remove_router_interface", router_id |-> Val("r1"),
           info |-> InterfaceInfo(k, i)] :
             k \in {"subnet_id", "port_id"}, i \in Range(IfaceIds)}
    \cup {[api |-> "delete_router", router_id |-> Val("r1")]}
    \cup {[api |-> a, router_id |-> Val("r1")] :
             a \in {"create_router", "update_router", "get_router", "get_routers",
                    "get_routers_count"}}

\* the first step of a decorated method's body
\* remove_router_interface going to the parent first
FirstStep_logical_first(api) ==
    CASE api = "add_router_interface" -> "super_add"
      [] api = "remove_router_interface" -> "super_remove"
      [] api = "delete_router" -> "super_delete"
      [] OTHER -> "super"

\* delete_router going to its own postcommit first
FirstStep_fabric_first(api) ==
    CASE api = "add_router_interface" -> "super_add"
      [] api = "remove_router_interface" -> "precommit"
      [] api = "delete_router" -> "delete_postcommit"
      [] OTHER -> "super"

FirstStep(api) ==
    CASE api = "add_router_interface" -> "super_add"
      [] api = "remove_router_interface" -> "precommit"
      [] api = "delete_router" -> "super_delete"
      [] OTHER -> "super"

NewRouterPass(owner) == [owner |-> owner, phase |-> "start", snap |-> <<>>, log |-> <<>>,
                         listed |-> <<>>]

L3Result(api, raised, error) == [api |-> api, raised |-> raised, error |-> error]

mechState == <<instance, interval, synchronizer, syncStarts, loop, db, main, pass>>

\* the gate of the plugin: inner() of its sync_init
\* a gate of the plugin that never records the synchronizer
l3_sync_init_unset(flag) == [start |-> ~flag, flag |-> flag]

l3_sync_init(flag) == [start |-> ~flag, flag |-> TRUE]

\* a decorated method of the plugin is called
L3Call ==
    /\ instance = "plugin"
    /\ l3.pc = "idle"
    /\ hist.events < MaxEvents
    /\ \E c \in L3Calls :
         LET g == l3_sync_init(l3.synchronizer)
             starts == g.start /\ l3.syncStarts < MaxSyncStarts
             mode == sync(interval)
         IN  l3' = [l3 EXCEPT
                      !.synchronizer = g.flag,
                      !.syncStarts = IF starts THEN @ + 1 ELSE @,
                      !.loop = IF starts /\ mode = "periodic" /\ @ \in {"none", "stopped"}
                               THEN "scheduled" ELSE @,
                      !.pass = IF starts /\ mode = "once" THEN NewRouterPass("main") ELSE @,
                      !.pc = IF starts /\ mode = "once" THEN "sync" ELSE FirstStep(c.api),
                      !.call = c,
                      !.before = l3.ifaces,
                      !.saved = "none",
                      !.trace = <<>>]
    /\ hist' = [hist EXCEPT !.events = @ + 1]
    /\ UNCHANGED <<mechState, fabric, faults>>

\* whether a step of the plugin fails on its own account; otherwise it may
\* fail by a fault of the environment
Faulty == IF faults < MaxFaults THEN BOOLEAN ELSE {FALSE}

\* create_router .. get_routers_count: the method of the parent class
L3Super ==
    /\ l3.pc = "super"
    /\ \E raised \in Faulty :
         /\ faults' = IF raised THEN faults + 1 ELSE faults
         /\ l3' = [l3 EXCEPT !.pc = "idle", !.trace = Append(@, "super"),
                             !.last = L3Result(l3.call.api, raised,
                                               IF raised THEN "logical" ELSE "none")]
    /\ UNCHANGED <<mechState, fabric, hist>>

\* add_router_interface: the interface is created in the parent
L3SuperAdd ==
    /\ l3.pc = "super_add"
    /\ LET i == IfaceOf(l3.call.info)
           refused == i \in l3.ifaces \/ l3.call.router_id \notin l3.routers
       IN  \E raised \in IF refused THEN {TRUE} ELSE Faulty :
             /\ faults' = IF raised /\ ~refused THEN faults + 1 ELSE faults
             /\ l3' = IF raised
                      THEN [l3 EXCEPT !.pc = "idle", !.trace = Append(@, "super_add!"),
                              !.last = L3Result(l3.call.api, TRUE, "logical")]
                      ELSE [l3 EXCEPT !.pc = "postcommit", !.ifaces = @ \cup {i},
                              !.trace = Append(@, "super_add")]
    /\ UNCHANGED <<mechState, fabric, hist>>


\* the error an outcome of a hook's plan stands for
ErrorOf(plan, o) ==
    IF ~o.raised THEN "none" ELSE IF plan.raises THEN "lookup" ELSE "fabric"

\* add_router_interface's try/except around the postcommit: where control
\* goes when add_router_interface_postcommit has raised or returned
\* add_router_interface without its exception handler
AfterPostcommit_norollback(raised) == "idle"

AfterPostcommit(raised) == IF raised THEN "rollback" ELSE "idle"

\* add_router_interface: the fabric is programmed; a failure is saved and
\* the handler of the exception entered
L3Postcommit ==
    /\ l3.pc = "postcommit"
    /\ LET plan == add_router_interface_postcommit(l3.ifaces, l3.call.router_id,
                                                   l3.call.info)
       IN  \E o \in Outcomes(plan, faults) :
             /\ faults' = faults + o.fault
             /\ fabric' = ApplyAll(fabric, Succeeded(plan, o))
             /\ l3' = IF AfterPostcommit(o.raised) = "rollback"
                      THEN [l3 EXCEPT !.pc = "rollback", !.saved = ErrorOf(plan, o),
                              !.trace = Append(@, "postcommit!")]
                      ELSE [l3 EXCEPT !.pc = "idle",
                              !.saved = ErrorOf(plan, o),
                              !.trace = Append(@, IF o.raised THEN "postcommit!"
                                                  ELSE "postcommit"),
                              !.last = L3Result(l3.call.api, o.raised, ErrorOf(plan, o))]
    /\ UNCHANGED <<mechState, hist>>

\* add_router_interface: the rollback of the db operation, inside
\* save_and_reraise_exception
L3Rollback ==
    /\ l3.pc = "rollback"
    /\ LET i == IfaceOf(l3.call.info)
       IN  \E raised \in Faulty :
             /\ faults' = IF raised THEN faults + 1 ELSE faults
             /\ l3' = [l3 EXCEPT
                         !.pc = "idle",
                         !.ifaces = IF raised THEN @ ELSE @ \ {i},
                         !.trace = Append(@, IF raised THEN "rollback!" ELSE "rollback"),
                         !.last = L3Result(l3.call.api, TRUE,
                                    save_and_reraise_exception(l3.saved,
                                        IF raised THEN "logical" ELSE "none"))]
    /\ UNCHANGED <<mechState, fabric, hist>>

\* remove_router_interface: the fabric is programmed first
L3Precommit ==
    /\ l3.pc = "precommit"
    /\ LET plan == remove_router_interface_precommit(l3.ifaces, l3.call.router_id,
                                                     l3.call.info)
       IN  \E o \in Outcomes(plan, faults) :
             /\ faults' = faults + o.fault
             /\ fabric' = ApplyAll(fabric, Succeeded(plan, o))
             /\ l3' = IF o.raised
                      THEN [l3 EXCEPT !.pc = "idle", !.trace = Append(@, "precommit!"),
                              !.last = L3Result(l3.call.api, TRUE, ErrorOf(plan, o))]
                      ELSE [l3 EXCEPT !.pc = "super_remove",
                              !.trace = Append(@, "precommit")]
    /\ UNCHANGED <<mechState, hist>>

\* remove_router_interface: the interface is removed in the parent
L3SuperRemove ==
    /\ l3.pc = "super_remove"
    /\ LET i == IfaceOf(l3.call.info)
       IN  \E raised \in IF i \notin l3.ifaces THEN {TRUE} ELSE Faulty :
             /\ faults' = IF raised /\ i \in l3.ifaces THEN faults + 1 ELSE faults
             /\ l3' = [l3 EXCEPT
                         !.pc = "idle",
                         !.ifaces = IF raised THEN @ ELSE @ \ {i},
                         !.trace = Append(@, IF raised THEN "super_remove!"
                                             ELSE "super_remove"),
                         !.last = L3Result(l3.call.api, raised,
                                           IF raised THEN "logical" ELSE "none")]
    /\ UNCHANGED <<mechState, fabric, hist>>

\* delete_router: the router is deleted in the parent, which refuses a
\* router that has interfaces
L3SuperDelete ==
    /\ l3.pc = "super_delete"
    /\ LET r == l3.call.router_id
           refused == r \notin l3.routers \/ l3.ifaces # {}
       IN  \E raised \in IF refused THEN {TRUE} ELSE Faulty :
             /\ faults' = IF raised /\ ~refused THEN faults + 1 ELSE faults
             /\ l3' = IF raised
                      THEN [l3 EXCEPT !.pc = "idle", !.trace = Append(@, "super_delete!"),
                              !.last = L3Result(l3.call.api, TRUE, "logical")]
                      ELSE [l3 EXCEPT !.pc = "delete_postcommit", !.routers = @ \ {r},
                              !.trace = Append(@, "super_delete")]
    /\ UNCHANGED <<mechState, fabric, hist>>

\* delete_router: delete_router_postcommit
L3DeletePostcommit ==
    /\ l3.pc = "delete_postcommit"
    /\ LET plan == delete_router_postcommit(l3.call.router_id)
       IN  \E o \in Outcomes(plan, faults) :
             /\ faults' = faults + o.fault
             /\ fabric' = ApplyAll(fabric, Succeeded(plan, o))
             /\ l3' = [l3 EXCEPT !.pc = "idle",
                         !.trace = Append(@, IF o.raised THEN "delete_postcommit!"
                                             ELSE "delete_postcommit"),
                         !.last = L3Result(l3.call.api, o.raised, ErrorOf(plan, o))]
    /\ UNCHANGED <<mechState, hist>>


\* core_plugin.get_ports as the router synchronizer sees it: the ports of
\* the networks and the ports of the router interfaces
AllPorts(d, ifaces) ==
    get_ports(d) \o SelectSeq(IfaceIds, LAMBDA i : i \in ifaces)

AnyPortRow(id) == IF id \in Range(IfaceIds) THEN IfaceRow(id) ELSE PortRow(id)

\* the filter of _sync_router
\* a filter that lets every port through
IsRouterInterface_any(port) == TRUE

IsRouterInterface(port) == port.device_owner = DEVICE_OWNER_ROUTER_INTF

\* _sync_router's try/except: the steps whose exception leaves _sync_router
L3Propagates(step) == step \in {"list"}

\* _sync_router has ended; its caller is the gate of the method being
\* called, or the looping call
L3Returned(p, raised, l) ==
    IF p.owner = "main"
    THEN IF raised
         THEN [l3 EXCEPT !.pass = p, !.pc = "idle", !.trace = Append(@, "sync_router!"),
                 !.last = L3Result(l3.call.api, TRUE, "sync")]
         ELSE [l3 EXCEPT !.pass = p, !.pc = FirstStep(l3.call.api),
                 !.trace = Append(@, "sync_router")]
    ELSE [l3 EXCEPT !.pass = p, !.loop = l]

\* core_plugin.get_ports at the head of _sync_router's loop
L3PassList ==
    /\ l3.pass.phase = "start"
    /\ \E raised \in Faulty :
         /\ faults' = IF raised THEN faults + 1 ELSE faults
         /\ IF raised /\ L3Propagates("list")
            THEN \E l \in LoopAfter(TRUE) :
                   l3' = L3Returned([l3.pass EXCEPT !.phase = "aborted"], TRUE, l)
            ELSE l3' = [l3 EXCEPT !.pass.phase = "ports",
                          !.pass.snap = IF raised THEN <<>> ELSE AllPorts(db, l3.ifaces),
                          !.pass.listed = IF raised THEN <<>> ELSE AllPorts(db, l3.ifaces)]
    /\ UNCHANGED <<mechState, fabric, hist>>

\* one iteration of _sync_router's loop
L3PassReplay ==
    /\ l3.pass.phase = "ports"
    /\ l3.pass.snap # <<>>
    /\ LET interface == AnyPortRow(Head(l3.pass.snap))
           plan == add_router_interface_postcommit(l3.ifaces, interface.device_id,
                                                   [key |-> "port_id", id |-> interface.id])
           entry(inv, r) == [id |-> interface.id, router_id |-> interface.device_id,
                             info |-> [key |-> "port_id", id |-> interface.id],
                             invoked |-> inv, raised |-> r]
       IN  IF ~IsRouterInterface(interface)
           THEN /\ l3' = [l3 EXCEPT !.pass.snap = Tail(@)]
                /\ UNCHANGED <<fabric, faults>>
           ELSE \E o \in Outcomes(plan, faults) :
                  /\ faults' = faults + o.fault
                  /\ fabric' = ApplyAll(fabric, Succeeded(plan, o))
                  /\ IF o.raised /\ L3Propagates("replay")
                     THEN \E l \in LoopAfter(TRUE) :
                            l3' = L3Returned([l3.pass EXCEPT !.phase = "aborted",
                                     !.log = Append(@, entry(Invoked(plan, o), TRUE))],
                                     TRUE, l)
                     ELSE l3' = [l3 EXCEPT !.pass.snap = Tail(@),
                                   !.pass.log = Append(@, entry(Invoked(plan, o), o.raised))]
    /\ UNCHANGED <<mechState, hist>>

\* the loop of _sync_router is exhausted: it returns
L3PassEnd ==
    /\ l3.pass.phase = "ports"
    /\ l3.pass.snap = <<>>
    /\ \E l \in LoopAfter(FALSE) :
         l3' = L3Returned([l3.pass EXCEPT !.phase = "done"], FALSE, l)
    /\ UNCHANGED <<mechState, fabric, hist, faults>>

\* the looping call of the plugin fires f
L3LoopFire ==
    /\ l3.loop \in {"scheduled", "sleeping"}
    /\ l3' = [l3 EXCEPT !.loop = "running", !.pass = NewRouterPass("loop")]
    /\ UNCHANGED <<mechState, fabric, hist, faults>>

----------------------------------------------------------------------------

MechNext == Hook \/ Handle \/ PassList \/ PassReplay \/ PassEnd \/ LoopFire

L3Next ==
    \/ L3Call \/ L3Super \/ L3SuperAdd \/ L3Postcommit \/ L3Rollback
    \/ L3Precommit \/ L3SuperRemove \/ L3SuperDelete \/ L3DeletePostcommit
    \/ L3PassList \/ L3PassReplay \/ L3PassEnd \/ L3LoopFire

Next == MechNext \/ L3Next

Spec == Init /\ [][Next]_vars

----------------------------------------------------------------------------
(* The hooks of the driver on any context: a driver that has passed its    *)
(* gate is handed one hook with one context out of the contexts ML2 can    *)
(* build, and runs the hook's body.                                        *)

\* the device owners a port can carry: compute:nova, compute, the dhcp
\* agent, a router's gateway, a router's interface, none, and another one
DeviceOwners ==
    { <<"compute", ":nova">>, <<"compute">>, DEVICE_OWNER_DHCP, DEVICE_OWNER_ROUTER_GW,
      DEVICE_OWNER_ROUTER_INTF, None, <<"network:floatingip">> }

\* the segments a port can be bound to, or none
Segments == { Unbound, Bound(TYPE_VLAN, Val("100")), Bound(<<"vxlan">>, Val("200")) }

\* port contexts: a port of either tenant, with or without a device, on the
\* tenant network n1, the configured external network x1 or the
\* unconfigured external network x2
PortContexts ==
    { PortContext([id |-> Val("p0"), network_id |-> n, tenant_id |-> t,
                   device_owner |-> o, device_id |-> dev, host_id |-> Val("h1")],
                  NetworkRow(n), seg) :
        n \in {Val("n1"), Val("x1"), Val("x2")}, t \in {Val("t1"), Val("t2")},
        o \in DeviceOwners, dev \in {Val("r1"), None}, seg \in Segments }

HandlerInputs ==
    { [main |-> [pc |-> "handler", hook |-> h, kind |-> "port", ctx |-> c], db |-> FullDb] :
        h \in {"create_port_postcommit", "update_port_postcommit", "delete_port_postcommit"},
        c \in PortContexts }
    \cup
    { [main |-> [pc |-> "handler", hook |-> h, kind |-> "network",
                 ctx |-> NetworkContext(NetworkRow(n))], db |-> FullDb] :
        h \in {"create_network_postcommit", "update_network_postcommit",
               "delete_network_postcommit"},
        n \in Range(NetworkIds) }
    \cup
    { [main |-> [pc |-> "handler", hook |-> h, kind |-> "subnet",
                 ctx |-> [current |-> SubnetRow(n)]], db |-> d] :
        h \in {"create_subnet_postcommit", "update_subnet_postcommit",
               "delete_subnet_postcommit"},
        n \in {Val("s1"), Val("s2"), Val("s3"), Val("s4"), Val("s5")},
        d \in {FullDb, [FullDb EXCEPT !.networks = {}]} }

InitHandler ==
    /\ instance = "driver"
    /\ interval = [none |-> FALSE, v |-> -1]
    /\ synchronizer = TRUE
    /\ syncStarts = 1
    /\ loop = "none"
    /\ \E i \in HandlerInputs : main = i.main /\ db = i.db
    /\ fabric = {}
    /\ pass = NoPass
    /\ hist = [events |-> 1, passDone |-> FALSE, last |-> NoCall]
    /\ faults = 0
    /\ l3 = FreshL3

HandlerNext == Handle

SpecHandler == InitHandler /\ [][HandlerNext]_vars

----------------------------------------------------------------------------
(* Gated calls that overlap.  The server's workers are cooperative: a call *)
(* runs until it waits on the fabric or on the plugin, so the test and the *)
(* assignment of the gate are one step, while a resync started by the gate *)
(* waits at each of its calls and lets a second call in.                   *)

\* a second hook is called while the resync the first hook's gate started is
\* still running: inner() of sync_init, then f
HookConcurrent ==
    /\ instance = "driver"
    /\ main.pc = "sync"
    /\ hist.events < MaxEvents
    /\ \E e \in Events(db) :
         LET g == sync_init(synchronizer)
             starts == g.start /\ syncStarts < MaxSyncStarts
             ctx == HandlerContext(e.db, [kind |-> e.kind, ctx |-> e.ctx])
             plan == Handler(e.hook, ctx)
         IN  /\ db' = e.db
             /\ synchronizer' = g.flag
             /\ syncStarts' = IF starts THEN syncStarts + 1 ELSE syncStarts
             /\ \E o \in Outcomes(plan, faults) :
                  /\ fabric' = ApplyAll(fabric, Succeeded(plan, o))
                  /\ faults' = faults + o.fault
                  /\ hist' = [hist EXCEPT
                                !.events = @ + 1,
                                !.last = [hook |-> e.hook, ctx |-> ctx,
                                          invoked |-> Invoked(plan, o), raised |-> o.raised,
                                          ran |-> TRUE, caughtUp |-> hist.passDone]]
    /\ UNCHANGED <<instance, interval, loop, main, pass, l3>>

\* a second method of the plugin is called while the resync the first
\* call's gate started is still running: inner() of sync_init, then the
\* method of the parent class
L3CallConcurrent ==
    /\ instance = "plugin"
    /\ l3.pc = "sync"
    /\ hist.events < MaxEvents
    /\ LET g == l3_sync_init(l3.synchronizer)
           starts == g.start /\ l3.syncStarts < MaxSyncStarts
       IN  \E raised \in Faulty :
             /\ faults' = IF raised THEN faults + 1 ELSE faults
             /\ l3' = [l3 EXCEPT !.synchronizer = g.flag,
                                 !.syncStarts = IF starts THEN @ + 1 ELSE @,
                                 !.trace = Append(@, "concurrent")]
    /\ hist' = [hist EXCEPT !.events = @ + 1]
    /\ UNCHANGED <<mechState, fabric>>

InitGate ==
    /\ instance \in {"driver", "plugin"}
    /\ interval \in IntervalValues
    /\ synchronizer = FALSE
    /\ syncStarts = 0
    /\ loop = "none"
    /\ db = SmallDb
    /\ fabric = {}
    /\ main = IdleMain
    /\ pass = NoPass
    /\ hist = [events |-> 0, passDone |-> FALSE, last |-> NoCall]
    /\ faults = 0
    /\ l3 = FreshL3

GateNext == Next \/ HookConcurrent \/ L3CallConcurrent

SpecGate == InitGate /\ [][GateNext]_vars

----------------------------------------------------------------------------
(* The plugin's hooks called on their own.  add_router_interface_postcommit, *)
(* remove_router_interface_precommit and delete_router_postcommit are public *)
(* methods without the decorator: a caller other than the router API, as     *)
(* _sync_router is, reaches their body at once.                              *)

L3Hooks ==
    {[api |-> h, router_id |-> Val("r1"), info |-> InterfaceInfo(k, i)] :
        h \in {"add_router_interface_postcommit", "remove_router_interface_precommit"},
        k \in {"subnet_id", "port_id"}, i \in Range(IfaceIds)}
    \cup {[api |-> "delete_router_postcommit", router_id |-> Val("r1")]}

L3HookPlan(ifaces, c) ==
    CASE c.api = "add_router_interface_postcommit" ->
            add_router_interface_postcommit(ifaces, c.router_id, c.info)
      [] c.api = "remove_router_interface_precommit" ->
            remove_router_interface_precommit(ifaces, c.router_id, c.info)
      [] c.api = "delete_router_postcommit" -> delete_router_postcommit(c.router_id)

\* a hook of the plugin is called directly: its body, and no gate
L3HookDirect ==
    /\ instance = "plugin"
    /\ l3.pc = "idle"
    /\ hist.events < MaxEvents
    /\ \E c \in L3Hooks :
         LET plan == L3HookPlan(l3.ifaces, c)
         IN  \E o \in Outcomes(plan, faults) :
               /\ faults' = faults + o.fault
               /\ fabric' = ApplyAll(fabric, Succeeded(plan, o))
               /\ l3' = [l3 EXCEPT !.call = c, !.trace = <<c.api>>,
                                   !.last = L3Result(c.api, o.raised, ErrorOf(plan, o))]
    /\ hist' = [hist EXCEPT !.events = @ + 1]
    /\ UNCHANGED mechState

EntryNext == GateNext \/ L3HookDirect

SpecEntry == InitGate /\ [][EntryNext]_vars

----------------------------------------------------------------------------
(* The rollback of add_router_interface: the plugin with interval 5 in the *)
(* first call of its router API, an add_router_interface whose interface   *)
(* the parent has created and whose fabric call has raised.  Faults are    *)
(* counted from the entry of the exception handler on.                     *)

InitRollback ==
    /\ instance = "plugin"
    /\ interval = [none |-> FALSE, v |-> 5]
    /\ synchronizer = FALSE
    /\ syncStarts = 0
    /\ loop = "none"
    /\ db = SmallDb
    /\ fabric = {}
    /\ main = IdleMain
    /\ pass = NoPass
    /\ hist = [events |-> 1, passDone |-> FALSE, last |-> NoCall]
    /\ faults = 0
    /\ \E c \in {x \in L3Calls : x.api = "add_router_interface"} :
         l3 = [FreshL3 EXCEPT !.synchronizer = TRUE, !.syncStarts = 1,
                              !.loop = "scheduled", !.pc = "rollback", !.call = c,
                              !.ifaces = {IfaceOf(c.info)}, !.saved = "fabric",
                              !.trace = <<"super_add", "postcommit!">>]

SpecRollback == InitRollback /\ [][L3Next]_vars

----------------------------------------------------------------------------
(* A process started over a logical model that already has a router        *)
(* interface: the driver and the plugin are constructed afresh, each with  *)
(* no synchronizer, the fabric holds nothing yet, and interface q1 of      *)
(* router r1 is attached.                                                  *)

InitRestart ==
    /\ instance \in {"driver", "plugin"}
    /\ interval \in IntervalValues
    /\ synchronizer = FALSE
    /\ syncStarts = 0
    /\ loop = "none"
    /\ db = SmallDb
    /\ fabric = {}
    /\ main = IdleMain
    /\ pass = NoPass
    /\ hist = [events |-> 0, passDone |-> FALSE, last |-> NoCall]
    /\ faults = 0
    /\ l3 = [FreshL3 EXCEPT !.ifaces = {Val("q1")}]

SpecRestart == InitRestart /\ [][Next]_vars

----------------------------------------------------------------------------
(* The name mappings of the three places that map an id the caller may    *)
(* have left out: _map_names, delete_router_postcommit and the deletion of *)
(* a gateway port.  Each is handed its ids, absent and empty ones          *)
(* included, and the mappings it makes are recorded.                       *)

\* the ids a caller can pass for one argument
MaybeId(x) == {None, Empty, Val(x)}

MapInputs ==
    { [pc |-> "map", hook |-> "map_names", kind |-> "map",
       ctx |-> <<t, r, n, q>>] :
        t \in MaybeId("t1"), r \in MaybeId("r1"), n \in MaybeId("n1"),
        q \in MaybeId("q1") }
    \cup
    { [pc |-> "map", hook |-> "delete_router_postcommit", kind |-> "map",
       ctx |-> <<r>>] : r \in MaybeId("r1") }
    \cup
    { [pc |-> "map", hook |-> "delete_contract_if_gateway", kind |-> "map", ctx |-> c] :
        c \in {x \in PortContexts : x.current.device_owner = DEVICE_OWNER_ROUTER_GW} }

NoMapping == [site |-> "none", mapped |-> <<>>]

InitMap ==
    /\ instance = "plugin"
    /\ interval = [none |-> FALSE, v |-> -1]
    /\ synchronizer = TRUE
    /\ syncStarts = 1
    /\ loop = "none"
    /\ main \in MapInputs
    /\ db = FullDb
    /\ fabric = {}
    /\ pass = NoPass
    /\ hist = [events |-> 1, passDone |-> FALSE, last |-> NoMapping]
    /\ faults = 0
    /\ l3 = FreshL3

Mapped(site, mapped) ==
    /\ main' = [main EXCEPT !.pc = "idle"]
    /\ hist' = [hist EXCEPT !.last = [site |-> site, mapped |-> mapped]]
    /\ UNCHANGED <<instance, interval, synchronizer, syncStarts, loop, db, fabric,
                   pass, faults, l3>>

\* _map_names on four ids
MapNames ==
    /\ main.pc = "map"
    /\ main.hook = "map_names"
    /\ Mapped(main.hook,
              map_names_mapped(main.ctx[1], main.ctx[2], main.ctx[3], main.ctx[4]))

\* delete_router_postcommit on a router id
MapDeleteRouter ==
    /\ main.pc = "map"
    /\ main.hook = "delete_router_postcommit"
    /\ Mapped(main.hook, delete_router_postcommit_mapped(main.ctx[1]))

\* _delete_contract_if_gateway on a gateway port
MapGateway ==
    /\ main.pc = "map"
    /\ main.hook = "delete_contract_if_gateway"
    /\ Mapped(main.hook, delete_contract_if_gateway_mapped(main.ctx))

MapNext == MapNames \/ MapDeleteRouter \/ MapGateway

SpecMap == InitMap /\ [][MapNext]_vars

----------------------------------------------------------------------------
(* The periodic resync after a pass in which a replay failed: the driver   *)
(* with interval 5 on the smaller model, its looping call asleep after a   *)
(* first pass in which the fabric refused the bridge domain of n1 and      *)
(* every other replay succeeded.  Faults are counted from that pass on.    *)

\* the log and the fabric that pass has left behind
FailedPass ==
    LET entry(kind, id, ctx, network, failed) ==
            LET plan == Handler(ReplayHook(kind), ctx)
            IN  [kind |-> kind, id |-> id,
                 invoked |-> IF failed THEN SubSeq(plan.calls, 1, 1) ELSE plan.calls,
                 raised |-> failed, network |-> network, plan |-> plan.calls]
        p1 == PortRow(Val("p1"))
        net == get_network(SmallDb, p1.network_id)
    IN  [NewPass("loop") EXCEPT
           !.phase = "done",
           !.listed = [networks |-> get_networks(SmallDb), subnets |-> get_subnets(SmallDb),
                       ports |-> get_ports(SmallDb)],
           !.log = << entry("networks", Val("n1"), NetworkContext(NetworkRow(Val("n1"))),
                            None, TRUE),
                      entry("networks", Val("n2"), NetworkContext(NetworkRow(Val("n2"))),
                            None, FALSE),
                      entry("subnets", Val("s1"), SubnetContext(SmallDb, SubnetRow(Val("s1"))),
                            None, FALSE),
                      entry("ports", Val("p1"),
                            PortContext(p1, net[1], BoundSegment(Val("p1"))), net, FALSE) >>]

InitHeal ==
    /\ instance = "driver"
    /\ interval = [none |-> FALSE, v |-> 5]
    /\ synchronizer = TRUE
    /\ syncStarts = 1
    /\ loop = "sleeping"
    /\ db = SmallDb
    /\ fabric = ApplyAll({}, FailedPass.log[2].invoked \o FailedPass.log[3].invoked
                                \o FailedPass.log[4].invoked)
    /\ main = IdleMain
    /\ pass = FailedPass
    /\ hist = [events |-> 1, passDone |-> TRUE,
               last |-> [hook |-> "update_network_postcommit",
                         ctx |-> NetworkContext(NetworkRow(Val("n2"))), invoked |-> <<>>,
                         raised |-> FALSE, ran |-> TRUE, caughtUp |-> FALSE]]
    /\ faults = 0
    /\ l3 = FreshL3

HealNext == Hook \/ PassList \/ PassReplay \/ PassEnd \/ LoopFire

\* the looping call's timer fires f again after each sleep, and a pass that
\* runs takes its steps
SpecHeal ==
    /\ InitHeal
    /\ [][HealNext]_vars
    /\ WF_vars(LoopFire) /\ WF_vars(PassList) /\ WF_vars(PassReplay) /\ WF_vars(PassEnd)

----------------------------------------------------------------------------
(* Properties. *)

\* C1: on a fresh driver, and on a fresh L3 plugin, the gate starts the resync
\* exactly once, with the first gated call: the count of sync_base() and of
\* sync_router() calls is 1 once a call was delivered, and never more, the
\* replays of a pass going through the gate as well.
C1_ResyncStartedOnce ==
    /\ syncStarts = (IF synchronizer THEN 1 ELSE 0)
    /\ l3.syncStarts = (IF l3.synchronizer THEN 1 ELSE 0)
    /\ (instance = "driver" /\ hist.events > 0 => syncStarts = 1)
    /\ (instance = "plugin" /\ hist.events > 0 => l3.syncStarts = 1)

\* a second gated call of the driver has been handled, after the pass the
\* first one started has replayed hooks through the gate
C1_SecondCall ==
    /\ instance = "driver"
    /\ ~interval.none /\ interval.v = 0
    /\ hist.events = 2
    /\ main.pc = "idle"
    /\ hist.last.ran
    /\ pass.phase = "done"
    /\ pass.log # <<>>
    /\ syncStarts = 1

\* C2, as amended: with interval 0 the hook that triggered the gate runs its
\* body only after _sync_base has returned normally, and every body runs
\* after the pass has ended, normally or by an exception.
C2_OnceModeCaughtUp ==
    (~interval.none /\ interval.v = 0) =>
        /\ (main.pc = "handler" => pass.phase = "done")
        /\ (hist.last.ran => pass.phase \in {"done", "aborted"})
        /\ (hist.events = 1 /\ hist.last.ran => hist.last.caughtUp)

\* the triggering hook has made fabric calls after a complete pass
C2_TriggeringHandled ==
    /\ ~interval.none /\ interval.v = 0
    /\ hist.events = 1
    /\ hist.last.ran
    /\ hist.last.invoked # <<>>
    /\ hist.last.caughtUp

\* C2, as stated: with interval 0 or above, a hook's body makes fabric calls
\* only when a first full pass has completed.
C2_CaughtUpBeforeAnyHandler ==
    (~interval.none /\ interval.v >= 0 /\ hist.last.ran /\ hist.last.invoked # <<>>)
        => hist.last.caughtUp

\* C3: a replay that raises does not leave _sync_base; every listed entity
\* is replayed, in the order listed, and a replay that did not raise made
\* all the calls of its handler.
C3_ReplayFailureIsolated ==
    LET ids == [i \in 1..Len(pass.log) |-> pass.log[i].id]
        listed == pass.listed.networks \o pass.listed.subnets \o pass.listed.ports
    IN  /\ pass.cause # "replay"
        /\ (pass.phase \in {"networks", "subnets", "ports", "done"}
              => ids \o pass.snap = listed)
        /\ \A i \in 1..Len(pass.log) :
             ~pass.log[i].raised => pass.log[i].invoked = pass.log[i].plan

\* a pass has ended in which exactly one replay raised, entities following it
C3_OneReplayRaised ==
    /\ pass.phase = "done"
    /\ Len(pass.log) >= 3
    /\ Cardinality({i \in 1..Len(pass.log) : pass.log[i].raised}) = 1
    /\ ~pass.log[Len(pass.log)].raised
    /\ pass.log[1].raised

\* C4, as stated: _sync_base never ends by an exception.
C4_PassNeverAborts == pass.phase # "aborted"

\* C5: with interval 0, sync(f) calls f once, with the first gated call, the
\* caller waiting for it; no looping call exists and f is not called again.
C5_OnceSynchronous ==
    (~interval.none /\ interval.v = 0) =>
        /\ loop = "none" /\ l3.loop = "none"
        /\ pass.owner # "loop" /\ l3.pass.owner # "loop"
        /\ (syncStarts = 1 => pass.phase # "none")
        /\ (l3.syncStarts = 1 => l3.pass.phase # "none")
        /\ (PassRunning => main.pc = "sync")
        /\ (main.pc = "handler" => pass.phase = "done")
        /\ (l3.pass.phase \in {"start", "ports"} => l3.pc = "sync")
        /\ (pass.phase = "start" => hist.events = 1)
        /\ (l3.pass.phase = "start" => hist.events = 1)

\* two hooks were handled, the pass of the first long done
C5_SecondEventAfterPass ==
    /\ ~interval.none /\ interval.v = 0
    /\ hist.events = 2
    /\ main.pc = "idle"
    /\ hist.last.ran
    /\ pass.phase = "done"

\* C6, as amended: a negative interval never calls f and starts no looping
\* call; an interval of None does as interval 0 does: f is called by the
\* first gated call, and no looping call is started.
C6_NegativeDisabledNoneOnce ==
    /\ (~interval.none /\ interval.v < 0) =>
          /\ pass.phase = "none" /\ l3.pass.phase = "none"
          /\ loop = "none" /\ l3.loop = "none"
    /\ interval.none =>
          /\ loop = "none" /\ l3.loop = "none"
          /\ (syncStarts = 1 => pass.phase # "none")
          /\ (l3.syncStarts = 1 => l3.pass.phase # "none")

\* with a negative interval two hooks have passed the gate
C6_NegativeGatePassed ==
    /\ ~interval.none /\ interval.v < 0
    /\ syncStarts = 1
    /\ hist.events = 2
    /\ hist.last.ran

\* C6, as stated: with an interval that is negative or None, f is never
\* called and no looping call is started.
C6_UnsetOrNegativeDisabled ==
    (interval.none \/ interval.v < 0) =>
        /\ pass.phase = "none" /\ l3.pass.phase = "none"
        /\ loop = "none" /\ l3.loop = "none"

C8_RollbackOnFabricFailure ==
    (l3.pc = "idle" /\ l3.call.api = "add_router_interface" /\ l3.saved = "fabric") =>
        /\ \E k \in 1..Len(l3.trace) : l3.trace[k] \in {"rollback", "rollback!"}
        /\ (l3.trace[Len(l3.trace)] = "rollback" =>
              /\ l3.ifaces = l3.before
              /\ l3.last = [api |-> "add_router_interface", raised |-> TRUE,
                            error |-> "fabric"])

\* an add_router_interface whose fabric call raised has been rolled back
C8_RolledBack ==
    /\ l3.pc = "idle"
    /\ l3.call.api = "add_router_interface"
    /\ l3.saved = "fabric"
    /\ l3.trace[Len(l3.trace)] = "rollback"
    /\ l3.trace[Len(l3.trace) - 1] = "postcommit!"

\* C9, as amended: remove_router_interface calls the parent's removal only
\* after its own fabric removal has returned; a fabric removal that raises
\* leaves the interface in place.
C9_FabricRemovalFirst ==
    l3.call.api = "remove_router_interface" =>
        \A k \in 1..Len(l3.trace) :
            l3.trace[k] \in {"super_remove", "super_remove!"}
                => k > 1 /\ l3.trace[k - 1] = "precommit"

\* a remove_router_interface has removed an interface
C9_Removed ==
    /\ l3.call.api = "remove_router_interface"
    /\ l3.pc = "idle"
    /\ l3.trace # <<>>
    /\ l3.trace[Len(l3.trace)] = "super_remove"
    /\ l3.ifaces # l3.before

\* C9, as stated: once remove_router_interface has removed the interface,
\* the fabric does not hold the association the call has removed from it.
C9_NoRemovedButAssociated ==
    (/\ l3.call.api = "remove_router_interface"
     /\ l3.trace # <<>>
     /\ l3.trace[Len(l3.trace)] = "super_remove")
        => LET plan == remove_router_interface_precommit(l3.before, l3.call.router_id,
                                                         l3.call.info)
           IN  \A k \in 1..Len(plan.calls) :
                 [kind |-> "router_intf", args |-> plan.calls[k].args] \notin fabric

\* C10: for a gateway port with a router on a configured external network,
\* create and update call the fabric in the order: router contract, context,
\* external routed network, node profile, static route, external EPG,
\* consumed contract, provided contract, the two last with the contract of
\* the mapped router; a call that raises ends the sequence.
C10_GatewayWiringOrder ==
    LET Expected == << "get_router_contract", "ensure_context_enforced",
                       "ensure_external_routed_network_created",
                       "ensure_logical_node_profile_created",
                       "ensure_static_route_created", "ensure_external_epg_created",
                       "ensure_external_epg_consumed_contract",
                       "ensure_external_epg_provided_contract" >>
        IsGateway(port, network) ==
            /\ port.device_owner = DEVICE_OWNER_ROUTER_GW
            /\ Truthy(port.device_id)
            /\ Truthy(ExtNetGet(network.name))
        Ordered(port, invoked, raised) ==
            LET arouter_id == NameMapper("router", port.device_id)
            IN  /\ Len(invoked) <= Len(Expected)
                /\ \A k \in 1..Len(invoked) : invoked[k].op = Expected[k]
                /\ (~raised => Len(invoked) = Len(Expected))
                /\ (Len(invoked) >= 1 => invoked[1].args = <<arouter_id>>)
                /\ \A k \in 7..Len(invoked) :
                     invoked[k].args[2] = RouterContract(arouter_id)
    IN  /\ (/\ hist.last.ran
            /\ hist.last.hook \in {"create_port_postcommit", "update_port_postcommit"}
            /\ IsGateway(hist.last.ctx.current, hist.last.ctx.network))
              => Ordered(hist.last.ctx.current, hist.last.invoked, hist.last.raised)
        /\ \A i \in 1..Len(pass.log) :
             (/\ pass.log[i].kind = "ports"
              /\ IsGateway(PortRow(pass.log[i].id),
                           NetworkRow(PortRow(pass.log[i].id).network_id)))
               => Ordered(PortRow(pass.log[i].id), pass.log[i].invoked, pass.log[i].raised)

\* an update of the gateway port has made all its calls
C10_GatewayUpdated ==
    /\ hist.last.ran
    /\ hist.last.hook = "update_port_postcommit"
    /\ hist.last.ctx.current.device_owner = DEVICE_OWNER_ROUTER_GW
    /\ ~hist.last.raised
    /\ Len(hist.last.invoked) = 8

\* C11: every one of the seven gateway-wiring operations that a create or
\* update of a gateway port issues (context, external routed network, node
\* profile, static route, external EPG, consumed contract, provided
\* contract) is attached to the transaction of the block.
C11_AllSevenAttached ==
    (/\ hist.last.ran
     /\ hist.last.hook \in {"create_port_postcommit", "update_port_postcommit"}
     /\ hist.last.ctx.current.device_owner = DEVICE_OWNER_ROUTER_GW)
      => \A k \in 1..Len(hist.last.invoked) :
           hist.last.invoked[k].op # "get_router_contract" => hist.last.invoked[k].trs

\* C12: a create or update of a compute-prefixed or dhcp port with no bound
\* segment makes no fabric call and raises nothing.
C12_UnboundPortNoOp ==
    (/\ hist.last.ran
     /\ hist.last.hook \in {"create_port_postcommit", "update_port_postcommit"}
     /\ \/ StartsWithCompute(hist.last.ctx.current.device_owner)
        \/ hist.last.ctx.current.device_owner = DEVICE_OWNER_DHCP
     /\ ~hist.last.ctx.bound_segment.bound)
      => /\ hist.last.invoked = <<>>
         /\ ~hist.last.raised

\* an unbound dhcp port has been created
C12_UnboundDhcpCreated ==
    /\ hist.last.ran
    /\ hist.last.hook = "create_port_postcommit"
    /\ hist.last.ctx.current.device_owner = DEVICE_OWNER_DHCP
    /\ ~hist.last.ctx.bound_segment.bound
    /\ hist.last.invoked = <<>>
    /\ ~hist.last.raised

\* C13: a create or update of a compute-prefixed or dhcp port bound to a
\* vlan segment S on host H makes exactly one fabric call, the path
\* attachment of (mapped tenant, mapped network, H, S), in a transaction,
\* and raises only if that call does.
C13_BoundPortOnePath ==
    (/\ hist.last.ran
     /\ hist.last.hook \in {"create_port_postcommit", "update_port_postcommit"}
     /\ \/ StartsWithCompute(hist.last.ctx.current.device_owner)
        \/ hist.last.ctx.current.device_owner = DEVICE_OWNER_DHCP
     /\ hist.last.ctx.bound_segment.bound
     /\ hist.last.ctx.bound_segment.network_type = TYPE_VLAN)
      => /\ hist.last.invoked =
              << [op |-> "ensure_path_created_for_port",
                  args |-> << NameMapper("tenant", hist.last.ctx.current.tenant_id),
                              NameMapper("network", hist.last.ctx.network.id),
                              hist.last.ctx.current.host_id,
                              hist.last.ctx.bound_segment.segmentation_id >>,
                  trs |-> TRUE] >>
         /\ hist.last.raised => faults > 0

\* a compute port bound to vlan 100 on h1 has been updated
C13_BoundComputeUpdated ==
    /\ hist.last.ran
    /\ hist.last.hook = "update_port_postcommit"
    /\ hist.last.ctx.current.device_owner = <<"compute", ":nova">>
    /\ hist.last.ctx.current.host_id = Val("h1")
    /\ hist.last.ctx.bound_segment = Bound(TYPE_VLAN, Val("100"))
    /\ Len(hist.last.invoked) = 1
    /\ ~hist.last.raised

\* C14: a create or update of a gateway port on a network whose name has no
\* entry in the external-network configuration makes no fabric call and
\* raises nothing.
C14_UnconfiguredGatewayNoOp ==
    (/\ hist.last.ran
     /\ hist.last.hook \in {"create_port_postcommit", "update_port_postcommit"}
     /\ hist.last.ctx.current.device_owner = DEVICE_OWNER_ROUTER_GW
     /\ hist.last.ctx.network.name \notin DOMAIN ext_net_dict)
      => /\ hist.last.invoked = <<>>
         /\ ~hist.last.raised

\* the gateway port of router r1 on the unconfigured external network ext2
\* has been created
C14_UnconfiguredGatewayCreated ==
    /\ hist.last.ran
    /\ hist.last.hook = "create_port_postcommit"
    /\ hist.last.ctx.current.device_owner = DEVICE_OWNER_ROUTER_GW
    /\ hist.last.ctx.current.device_id = Val("r1")
    /\ hist.last.ctx.network.name = <<"ext2">>
    /\ hist.last.ctx.network.external
    /\ hist.last.invoked = <<>>
    /\ ~hist.last.raised

\* C15: what a create or update of a port does is decided by device_owner:
\* the path attachment is made exactly for an owner that starts with compute
\* or is the dhcp agent (and a bound port), the gateway wiring exactly for
\* the router gateway (with a router and a configured network), and for any
\* other owner, a router interface and a missing owner included, no fabric
\* call is made and nothing raised; create and update make the same calls.
C15_DispatchByOwner ==
    LET owner == hist.last.ctx.current.device_owner
        IsPath == StartsWithCompute(owner) \/ owner = DEVICE_OWNER_DHCP
        IsGw == owner = DEVICE_OWNER_ROUTER_GW
        Ops == {hist.last.invoked[k].op : k \in 1..Len(hist.last.invoked)}
        PathOps == {"ensure_path_created_for_port"}
    IN  (/\ hist.last.ran
         /\ hist.last.hook \in {"create_port_postcommit", "update_port_postcommit"})
          => /\ IsPath => /\ Ops \subseteq PathOps
                          /\ hist.last.ctx.bound_segment.bound => Ops = PathOps
             /\ IsGw => /\ Ops \cap PathOps = {}
                        /\ (/\ Truthy(hist.last.ctx.current.device_id)
                            /\ hist.last.ctx.network.name \in DOMAIN ext_net_dict)
                             => Ops # {}
             /\ (~IsPath /\ ~IsGw) => hist.last.invoked = <<>> /\ ~hist.last.raised
             /\ create_port_postcommit(hist.last.ctx) = update_port_postcommit(hist.last.ctx)

\* a bound port with no device_owner has been updated, and a router
\* interface is no different
C15_OwnerlessUpdated ==
    /\ hist.last.ran
    /\ hist.last.hook = "update_port_postcommit"
    /\ hist.last.ctx.current.device_owner = None
    /\ hist.last.ctx.bound_segment.bound
    /\ hist.last.invoked = <<>>
    /\ create_port_postcommit([hist.last.ctx EXCEPT
                                 !.current.device_owner = DEVICE_OWNER_ROUTER_INTF]) = NoCalls

\* C16: create_network_postcommit of a network that is not external makes,
\* in one transaction, the call that ensures the bridge domain and then the
\* call that ensures the EPG, both for the mapped (tenant, network), and no
\* other call; a call that raises ends the sequence.  For an external
\* network it makes no call and raises nothing.
C16_NetworkCreateBdThenEpg ==
    LET network == hist.last.ctx.current
        ids == << NameMapper("tenant", network.tenant_id), NameMapper("network", network.id) >>
        Expected == << [op |-> "ensure_bd_created_on_apic", args |-> ids, trs |-> TRUE],
                       [op |-> "ensure_epg_created_for_network", args |-> ids, trs |-> TRUE] >>
        n == Len(hist.last.invoked)
    IN  (hist.last.ran /\ hist.last.hook = "create_network_postcommit")
          => IF network.external
             THEN hist.last.invoked = <<>> /\ ~hist.last.raised
             ELSE /\ n <= 2
                  /\ hist.last.invoked = SubSeq(Expected, 1, n)
                  /\ ~hist.last.raised => n = 2
                  /\ hist.last.raised => faults > 0

\* the network n1 has been created with both its calls
C16_NetworkCreated ==
    /\ hist.last.ran
    /\ hist.last.hook = "create_network_postcommit"
    /\ hist.last.ctx.current.id = Val("n1")
    /\ ~hist.last.ctx.current.external
    /\ Len(hist.last.invoked) = 2
    /\ ~hist.last.raised

\* C17: delete_network_postcommit of a network that is not external makes the
\* call that deletes the EPG and then the call that deletes the bridge
\* domain, for the mapped (tenant, network), and no other call; of an
\* external network it makes the one call that deletes the external routed
\* network of the mapped network when the network's name has an entry in the
\* external-network configuration, and no call when it has none.
C17_NetworkDeleteEpgThenBd ==
    LET network == hist.last.ctx.current
        ids == << NameMapper("tenant", network.tenant_id), NameMapper("network", network.id) >>
        Expected ==
            IF ~network.external
            THEN << [op |-> "delete_epg_for_network", args |-> ids, trs |-> TRUE],
                    [op |-> "delete_bd_on_apic", args |-> ids, trs |-> TRUE] >>
            ELSE IF network.name \in DOMAIN ext_net_dict
            THEN << [op |-> "delete_external_routed_network",
                     args |-> <<NameMapper("network", network.id)>>, trs |-> FALSE] >>
            ELSE <<>>
        n == Len(hist.last.invoked)
    IN  (hist.last.ran /\ hist.last.hook = "delete_network_postcommit")
          => /\ n <= Len(Expected)
             /\ hist.last.invoked = SubSeq(Expected, 1, n)
             /\ ~hist.last.raised => n = Len(Expected)
             /\ hist.last.raised => faults > 0

\* the network n2 has been deleted with both its calls
C17_NetworkDeleted ==
    /\ hist.last.ran
    /\ hist.last.hook = "delete_network_postcommit"
    /\ hist.last.ctx.current.id = Val("n2")
    /\ ~hist.last.ctx.current.external
    /\ Len(hist.last.invoked) = 2
    /\ ~hist.last.raised

\* C18: create_subnet_postcommit and delete_subnet_postcommit make no fabric
\* call when the subnet's network is external; otherwise each makes exactly
\* one call, ensure-subnet-created resp. ensure-subnet-deleted, with (mapped
\* tenant, mapped network, gateway_ip '/' prefix length of the cidr), so that
\* the two address the same object.
C18_SubnetOneOperation ==
    LET subnet == hist.last.ctx.current
        op == IF hist.last.hook = "create_subnet_postcommit"
              THEN "ensure_subnet_created_on_apic" ELSE "ensure_subnet_deleted_on_apic"
        args == << NameMapper("tenant", subnet.tenant_id),
                   NameMapper("network", subnet.network_id),
                   subnet.gateway_ip \o <<"/">> \o PrefixLen(subnet.cidr) >>
    IN  (/\ hist.last.ran
         /\ hist.last.hook \in {"create_subnet_postcommit", "delete_subnet_postcommit"}
         /\ hist.last.ctx.network # None)
          => IF hist.last.ctx.network[1].external
             THEN hist.last.invoked = <<>> /\ ~hist.last.raised
             ELSE /\ hist.last.invoked = << [op |-> op, args |-> args, trs |-> FALSE] >>
                  /\ hist.last.raised => faults > 0

\* C19: delete_port_postcommit makes a fabric call only for a port whose
\* device_owner is the router gateway: exactly one call, the removal of the
\* external EPG's contract for (mapped router, mapped network), whether or
\* not the network's name has an entry in the external-network
\* configuration; for any other device_owner it makes no call and raises
\* nothing.
C19_DeleteOnlyGatewayContract ==
    LET port == hist.last.ctx.current
    IN  (hist.last.ran /\ hist.last.hook = "delete_port_postcommit")
          => IF port.device_owner = DEVICE_OWNER_ROUTER_GW
             THEN /\ hist.last.invoked =
                       << [op |-> "delete_external_epg_contract",
                           args |-> << NameMapper("router", port.device_id),
                                       NameMapper("network", hist.last.ctx.network.id) >>,
                           trs |-> FALSE] >>
                  /\ hist.last.raised => faults > 0
             ELSE hist.last.invoked = <<>> /\ ~hist.last.raised

\* the gateway port of router r1 on the unconfigured external network ext2
\* has been deleted
C19_UnconfiguredGatewayDeleted ==
    /\ hist.last.ran
    /\ hist.last.hook = "delete_port_postcommit"
    /\ hist.last.ctx.current.device_owner = DEVICE_OWNER_ROUTER_GW
    /\ hist.last.ctx.current.device_id = Val("r1")
    /\ hist.last.ctx.network.name \notin DOMAIN ext_net_dict
    /\ Len(hist.last.invoked) = 1
    /\ ~hist.last.raised

\* C20: in a pass of _sync_base the replays follow the order networks,
\* subnets, ports; the entities replayed of each type are the listed ones in
\* the listed order, none twice, and once the pass has ended every listed
\* entity has been replayed; a port is replayed with the network it is on.
C20_ReplayOrderOnce ==
    LET Rank(kind) == CASE kind = "networks" -> 1 [] kind = "subnets" -> 2 [] kind = "ports" -> 3
        Replayed(kind) == SelectSeq(pass.log, LAMBDA e : e.kind = kind)
        Ids(kind) == [i \in 1..Len(Replayed(kind)) |-> Replayed(kind)[i].id]
    IN  /\ \A i, j \in 1..Len(pass.log) :
             i < j => Rank(pass.log[i].kind) <= Rank(pass.log[j].kind)
        /\ \A kind \in {"networks", "subnets", "ports"} :
             /\ Len(Ids(kind)) <= Len(pass.listed[kind])
             /\ Ids(kind) = SubSeq(pass.listed[kind], 1, Len(Ids(kind)))
             /\ pass.phase \in {"done", "aborted"} => Ids(kind) = pass.listed[kind]
        /\ \A i \in 1..Len(pass.log) :
             pass.log[i].kind = "ports"
               => pass.log[i].network = <<NetworkRow(PortRow(pass.log[i].id).network_id)>>

\* C21: a pass of _sync_router replays add_router_interface_postcommit for
\* the listed ports whose device_owner is the router-interface owner, in the
\* listed order, each once, with the port's device_id as router and
\* {'port_id': the port's id} as interface_info, and for no other port; a
\* replay that raises does not end the pass: a pass that has listed ports
\* is never aborted and replays every listed interface.
C21_RouterResyncReplaysInterfaces ==
    LET Interfaces == SelectSeq(l3.pass.listed,
                        LAMBDA i : AnyPortRow(i).device_owner = DEVICE_OWNER_ROUTER_INTF)
        n == Len(l3.pass.log)
    IN  /\ n <= Len(Interfaces)
        /\ \A k \in 1..n :
             /\ l3.pass.log[k].id = Interfaces[k]
             /\ l3.pass.log[k].router_id = AnyPortRow(Interfaces[k]).device_id
             /\ l3.pass.log[k].info = [key |-> "port_id", id |-> Interfaces[k]]
        /\ l3.pass.phase = "done" => n = Len(Interfaces)
        /\ l3.pass.phase = "aborted" => l3.pass.listed = <<>>

\* a pass over a compute port and two interfaces has ended; the replay of
\* the first interface raised and the second was replayed
C21_SecondReplayedAfterFailure ==
    /\ l3.pass.phase = "done"
    /\ Len(l3.pass.listed) = 3
    /\ Len(l3.pass.log) = 2
    /\ l3.pass.log[1].raised
    /\ ~l3.pass.log[2].raised
    /\ Len(l3.pass.log[2].invoked) = 1

C23_AtMostOneSynchronizer ==
    /\ syncStarts <= 1
    /\ l3.syncStarts <= 1
    /\ loop # "none" => sync(interval) = "periodic" /\ syncStarts = 1
    /\ l3.loop # "none" => sync(interval) = "periodic" /\ l3.syncStarts = 1
    /\ synchronizer <=> syncStarts = 1
    /\ l3.synchronizer <=> l3.syncStarts = 1

\* a second hook has run while the resync of the first hook was replaying
\* the ports, after the resync's own nested calls of the gate
C23_SecondCallDuringResync ==
    /\ main.pc = "sync"
    /\ pass.owner = "main"
    /\ pass.phase = "ports"
    /\ Len(pass.log) >= 1
    /\ hist.last.ran
    /\ hist.events = 2
    /\ syncStarts = 1

\* C24: a hook called by the framework raises whenever one of its fabric
\* calls raises, and it returns normally without a fabric call only where no
\* call was due: the dispatch on the kind of entity (an external network or
\* a subnet on one, an update of a network or subnet, a port of another
\* device owner), a path attachment on an unbound port, a gateway wiring on
\* a network without external configuration, and a gateway port that
\* carries no router id.
C24_EventErrorsPropagate ==
    LET c == hist.last.ctx
        owner == c.current.device_owner
        PortNoOp ==
            \/ (StartsWithCompute(owner) \/ owner = DEVICE_OWNER_DHCP) /\ ~c.bound_segment.bound
            \/ owner = DEVICE_OWNER_ROUTER_GW /\ c.network.name \notin DOMAIN ext_net_dict
            \/ owner = DEVICE_OWNER_ROUTER_GW /\ c.current.device_id = None
            \/ ~StartsWithCompute(owner) /\ owner \notin {DEVICE_OWNER_DHCP, DEVICE_OWNER_ROUTER_GW}
        NoOp ==
            CASE hist.last.hook \in {"create_port_postcommit", "update_port_postcommit"} -> PortNoOp
              [] hist.last.hook = "delete_port_postcommit" -> owner # DEVICE_OWNER_ROUTER_GW
              [] hist.last.hook = "create_network_postcommit" -> c.current.external
              [] hist.last.hook = "delete_network_postcommit" ->
                    c.current.external /\ c.current.name \notin DOMAIN ext_net_dict
              [] hist.last.hook \in {"create_subnet_postcommit", "delete_subnet_postcommit"} ->
                    c.network # None /\ c.network[1].external
              [] OTHER -> TRUE
    IN  hist.last.ran
          => /\ faults > 0 => hist.last.raised
             /\ (~hist.last.raised /\ hist.last.invoked = <<>>) => NoOp

\* the third fabric call of a gateway wiring has raised, and the hook with it
C24_GatewayCallRaised ==
    /\ hist.last.ran
    /\ hist.last.hook = "create_port_postcommit"
    /\ hist.last.ctx.current.device_owner = DEVICE_OWNER_ROUTER_GW
    /\ faults = 1
    /\ Len(hist.last.invoked) = 3
    /\ hist.last.raised

\* C24 as stated: a port hook that returns normally without a fabric call
\* is a path attachment on an unbound port, a gateway wiring on a network
\* without external configuration, or a port of another device owner.
C24_OnlyStatedNoOps ==
    LET c == hist.last.ctx
        owner == c.current.device_owner
    IN  (/\ hist.last.ran
         /\ hist.last.hook \in {"create_port_postcommit", "update_port_postcommit"}
         /\ ~hist.last.raised
         /\ hist.last.invoked = <<>>)
          => \/ (StartsWithCompute(owner) \/ owner = DEVICE_OWNER_DHCP) /\ ~c.bound_segment.bound
             \/ owner = DEVICE_OWNER_ROUTER_GW /\ c.network.name \notin DOMAIN ext_net_dict
             \/ ~StartsWithCompute(owner) /\ owner \notin {DEVICE_OWNER_DHCP, DEVICE_OWNER_ROUTER_GW}

\* C25: the body of each of the nine hooks of the driver, and of each
\* decorated method of the plugin's router API, runs only once the gate has
\* been passed: the instance holds its synchronizer whenever such a body has
\* run or is running.  The three hooks of the plugin pass the gate when the
\* router API calls them, not when they are called on their own.
C25_EntryPointsGated ==
    LET Api == {"create_router", "update_router", "delete_router", "get_router",
                "get_routers", "get_routers_count", "add_router_interface",
                "remove_router_interface"}
    IN  /\ hist.last.ran => synchronizer
        /\ main.pc # "idle" => synchronizer
        /\ l3.pc # "idle" => l3.synchronizer /\ l3.call.api \in Api
        /\ l3.last.api \in Api => l3.synchronizer
        /\ \A k \in 1..Len(l3.trace) :
             l3.trace[k] \in {"postcommit", "postcommit!", "precommit", "precommit!",
                              "delete_postcommit", "delete_postcommit!"}
               => l3.synchronizer

\* the first call of a fresh plugin, add_router_interface, has passed the
\* gate and programmed the fabric through its postcommit hook
C25_FirstCallGated ==
    /\ instance = "plugin"
    /\ hist.events = 1
    /\ l3.last.api = "add_router_interface"
    /\ ~l3.last.raised
    /\ l3.trace[Len(l3.trace)] = "postcommit"
    /\ l3.syncStarts = 1

\* C25 as stated: the three hooks of the plugin, too, have passed the gate
\* whenever their body has run.
C25_HooksGated ==
    l3.last.api \in {"add_router_interface_postcommit", "remove_router_interface_precommit",
                     "delete_router_postcommit"}
      => l3.synchronizer

\* C26: the replay of a network, subnet or port in a pass of _sync_base is
\* due the same fabric calls, with the same names, as the create hook the
\* framework delivers for that entity, and makes them in that order up to a
\* call that raises; a subnet whose network is gone by the time of its
\* replay is due none.
C26_ReplayEqualsCreateEvent ==
    LET EventPlan(kind, id) ==
            CASE kind = "networks" ->
                    create_network_postcommit(NetworkContext(NetworkRow(id)))
              [] kind = "subnets" ->
                    create_subnet_postcommit(
                        [current |-> SubnetRow(id),
                         network |-> <<NetworkRow(SubnetRow(id).network_id)>>])
              [] kind = "ports" ->
                    create_port_postcommit(
                        PortContext(PortRow(id), NetworkRow(PortRow(id).network_id),
                                    BoundSegment(id)))
    IN  \A k \in 1..Len(pass.log) :
          LET e == pass.log[k]
              calls == EventPlan(e.kind, e.id).calls
          IN  \/ /\ e.plan = calls
                 /\ Len(e.invoked) <= Len(calls)
                 /\ e.invoked = SubSeq(calls, 1, Len(e.invoked))
                 /\ ~e.raised => e.invoked = calls
              \/ /\ e.kind = "subnets"
                 /\ SubnetRow(e.id).network_id \notin db.networks
                 /\ e.raised /\ e.invoked = <<>>

\* a pass has replayed the gateway port p3 with its eight calls, after the
\* networks and the subnets
C26_GatewayReplayed ==
    /\ pass.phase = "done"
    /\ \E k \in 1..Len(pass.log) :
         /\ pass.log[k].kind = "ports"
         /\ pass.log[k].id = Val("p3")
         /\ Len(pass.log[k].invoked) = 8
    /\ \E k \in 1..Len(pass.log) :
         pass.log[k].kind = "subnets" /\ Len(pass.log[k].invoked) = 1

\* C27: once the delete hook of a network has returned normally, the fabric
\* holds no bridge domain and no EPG of that network, a pass of the periodic
\* resync that listed the network before its deletion notwithstanding.
C27_NoFabricNetworkAfterDelete ==
    (/\ hist.last.ran
     /\ hist.last.hook = "delete_network_postcommit"
     /\ ~hist.last.raised)
      => LET network == hist.last.ctx.current
             ids == << NameMapper("tenant", network.tenant_id),
                       NameMapper("network", network.id) >>
         IN  /\ Obj("bd", ids) \notin fabric
             /\ Obj("epg", ids) \notin fabric

\* C28: sync returns a loop handle exactly in periodic mode, and once the
\* gate has started a periodic resync that handle is what sync_base(), resp.
\* sync_router(), has handed back for the instance to keep.
C28_LoopHandleKept ==
    /\ sync_return(interval) # None <=> sync(interval) = "periodic"
    /\ loop # "none" => sync_base(interval) = sync_return(interval)
    /\ l3.loop # "none" => sync_router(interval) = sync_return(interval)

\* C29: delete_router calls the fabric's delete_router only after the
\* parent has deleted the router; when the parent raises, nothing else of
\* the call has run and the call raises the parent's error.
C29_FabricDeleteAfterLogical ==
    l3.call.api = "delete_router" =>
        /\ \A k \in 1..Len(l3.trace) :
             l3.trace[k] \in {"delete_postcommit", "delete_postcommit!"}
                 => /\ k > 1
                    /\ l3.trace[k - 1] = "super_delete"
                    /\ l3.call.router_id \notin l3.routers
        /\ (l3.trace # <<>> /\ l3.trace[Len(l3.trace)] = "super_delete!")
               => /\ \A k \in 1..Len(l3.trace) :
                       l3.trace[k] \notin {"delete_postcommit", "delete_postcommit!"}
                  /\ l3.pc = "idle"
                  /\ l3.last = [api |-> "delete_router", raised |-> TRUE,
                                error |-> "logical"]
        /\ (l3.trace # <<>> /\ l3.trace[Len(l3.trace)] = "delete_postcommit")
               => /\ l3.last = [api |-> "delete_router", raised |-> FALSE,
                                error |-> "none"]
                  /\ delete_router_postcommit(l3.call.router_id).calls[1].args
                         = <<NameMapper("router", l3.call.router_id)>>

\* a delete_router has deleted the router in the parent, then in the fabric
C29_DeletedInFabric ==
    /\ l3.call.api = "delete_router"
    /\ l3.pc = "idle"
    /\ Len(l3.trace) > 1
    /\ l3.trace[Len(l3.trace)] = "delete_postcommit"
    /\ l3.trace[Len(l3.trace) - 1] = "super_delete"
    /\ l3.routers = {}

\* a delete_router has ended with the parent's error
C29_LogicalDeleteRaised ==
    /\ l3.call.api = "delete_router"
    /\ l3.trace # <<>>
    /\ l3.trace[Len(l3.trace)] = "super_delete!"
    /\ l3.last.raised

\* a mapping as the `and` idiom makes it: a falsy id is the value and the
\* mapper is not consulted, any other id is mapped by the mapper
GuardedMapping(m) ==
    IF m.id \in {None, Empty}
    THEN ~m.consulted /\ m.value = m.id
    ELSE m.consulted /\ m.value = NameMapper(m.ns, m.id)

\* C30, as amended: _map_names and delete_router_postcommit return a falsy
\* id unchanged without consulting the mapper and the mapper's result
\* otherwise; the deletion of a gateway port hands the mapper the device_id
\* whatever it is, and the router name is falsy for a falsy device_id
\* as the mapper returns its falsy sentinel.
C30_FalsyIdsNotMapped ==
    /\ hist.last.site \in {"map_names", "delete_router_postcommit"}
          => \A k \in 1..Len(hist.last.mapped) : GuardedMapping(hist.last.mapped[k])
    /\ hist.last.site = "delete_contract_if_gateway"
          => \A k \in 1..Len(hist.last.mapped) :
                LET m == hist.last.mapped[k]
                IN  /\ m.consulted
                    /\ m.value = NameMapper(m.ns, m.id)
                    /\ (m.id \in {None, Empty} => m.value \in {None, Empty})

\* _map_names has been handed a router id and no subnet id
C30_SubnetLeftOut ==
    /\ hist.last.site = "map_names"
    /\ hist.last.mapped[2].id = Val("r1")
    /\ hist.last.mapped[2].value = <<"router", "r1">>
    /\ hist.last.mapped[4].id = None
    /\ hist.last.mapped[4].value = None

\* C30, as stated: at each of the three places a falsy id is left as it is
\* without consulting the mapper.
C30_NoFalsyIdReachesMapper ==
    hist.last.site \in {"map_names", "delete_router_postcommit",
                        "delete_contract_if_gateway"}
        => \A k \in 1..Len(hist.last.mapped) : GuardedMapping(hist.last.mapped[k])

\* C31: with interval 0 the replays of the first gated call's resync pass
\* the gate without starting a resync: one resync is started, a pass that
\* has ended has made one replay per entity it listed, in the order of the
\* listings, and the body of the first hook runs only after that pass.
C31_GateReentrant ==
    (instance = "driver" /\ sync(interval) = "once") =>
        /\ syncStarts <= 1
        /\ loop = "none"
        /\ pass.owner \in {"none", "main"}
        /\ pass.phase = "done" =>
             LET all == pass.listed.networks \o pass.listed.subnets \o pass.listed.ports
             IN  /\ Len(pass.log) = Len(all)
                 /\ \A k \in 1..Len(all) : pass.log[k].id = all[k]
        /\ Len(pass.log) <= Len(NetworkIds) + Len(SubnetIds) + Len(PortIds)
        /\ hist.last.ran => synchronizer
        /\ (hist.last.ran /\ hist.events = 1) => pass.phase = "done"
        /\ main.pc = "handler" => pass.phase = "done"

\* the first hook's body has run after a pass that replayed something
C31_HandledAfterPass ==
    /\ instance = "driver"
    /\ sync(interval) = "once"
    /\ hist.events = 1
    /\ hist.last.ran
    /\ main.pc = "idle"
    /\ syncStarts = 1
    /\ pass.phase = "done"
    /\ Len(pass.log) > 2

\* C32: with interval 0, when the resync of the first gated call has raised
\* out of the gate, the body of that call has not run and the call has
\* raised; the synchronizer stays set and no later gated call has started
\* another resync.
C32_FailedFirstResyncNotRetried ==
    /\ (instance = "driver" /\ sync(interval) = "once" /\ pass.phase = "aborted") =>
          /\ pass.owner = "main"
          /\ synchronizer
          /\ syncStarts = 1
          /\ main.pc = "idle"
          /\ hist.events = 1 =>
               /\ hist.last.raised
               /\ ~hist.last.ran
               /\ hist.last.invoked = <<>>
    /\ (instance = "plugin" /\ sync(interval) = "once" /\ l3.pass.phase = "aborted") =>
          /\ l3.pass.owner = "main"
          /\ l3.synchronizer
          /\ l3.syncStarts = 1
          /\ l3.pc # "sync"
          /\ (l3.trace # <<>> /\ l3.trace[Len(l3.trace)] = "sync_router!") =>
               /\ l3.trace = <<"sync_router!">>
               /\ l3.pc = "idle"
               /\ l3.last = [api |-> l3.call.api, raised |-> TRUE, error |-> "sync"]

\* after a first resync that raised, a later hook has run its body with no
\* resync before it
C32_LaterHookWithoutResync ==
    /\ instance = "driver"
    /\ sync(interval) = "once"
    /\ pass.phase = "aborted"
    /\ hist.events = 2
    /\ hist.last.ran
    /\ syncStarts = 1

\* the same on the plugin: a later call has ended after a first router
\* resync that raised
C32_LaterCallWithoutResync ==
    /\ instance = "plugin"
    /\ sync(interval) = "once"
    /\ l3.pass.phase = "aborted"
    /\ hist.events = 2
    /\ l3.pc = "idle"
    /\ l3.trace # <<>>
    /\ l3.trace[1] # "sync_router!"

C34_SameTenantAsNetwork ==
    LET last == hist.last
        network == IF ~last.ran THEN None
                   ELSE IF last.hook \in {"create_port_postcommit", "update_port_postcommit"}
                        THEN <<last.ctx.network>>
                   ELSE IF last.hook = "create_subnet_postcommit"
                        THEN last.ctx.network
                   ELSE None
    IN  (network # None /\ ~network[1].external) =>
          \A k \in 1..Len(last.invoked) :
             last.invoked[k].op \in {"ensure_path_created_for_port",
                                     "ensure_subnet_created_on_apic"}
                => LET made == create_network_postcommit(NetworkContext(network[1])).calls
                   IN  /\ made # <<>>
                       /\ SubSeq(last.invoked[k].args, 1, 2) = made[1].args
                       /\ SubSeq(last.invoked[k].args, 1, 2) = made[2].args

C36_RemoveFailures ==
    (l3.call.api = "remove_router_interface" /\ l3.trace # <<>>) =>
        LET n == Len(l3.trace)
            row == IF l3.call.info.key = "subnet_id" THEN SubnetRow(l3.call.info.id)
                   ELSE IfaceRow(l3.call.info.id)
            removed == << NameMapper("tenant", row.tenant_id),
                          NameMapper("router", l3.call.router_id),
                          NameMapper("network", row.network_id) >>
        IN  /\ l3.trace[n] = "precommit!" =>
                 /\ \A k \in 1..n : l3.trace[k] \notin {"super_remove", "super_remove!"}
                 /\ l3.pc = "idle"
                 /\ l3.ifaces = l3.before
                 /\ l3.last.raised
                 /\ l3.last.error \in {"fabric", "lookup"}
            /\ l3.trace[n] = "super_remove!" =>
                 /\ n > 1
                 /\ l3.trace[n - 1] = "precommit"
                 /\ l3.pc = "idle"
                 /\ l3.ifaces = l3.before
                 /\ l3.last = [api |-> "remove_router_interface", raised |-> TRUE,
                               error |-> "logical"]
                 /\ sync(interval) # "periodic" =>
                      [kind |-> "router_intf", args |-> removed] \notin fabric

\* the parent's removal of an attached interface has raised after the
\* fabric removal returned
C36_LogicalRemovalRaised ==
    /\ l3.call.api = "remove_router_interface"
    /\ sync(interval) # "periodic"
    /\ l3.trace # <<>>
    /\ l3.trace[Len(l3.trace)] = "super_remove!"
    /\ IfaceOf(l3.call.info) \in l3.ifaces
    /\ faults > 0

\* the fabric removal has raised
C36_FabricRemovalRaised ==
    /\ l3.call.api = "remove_router_interface"
    /\ l3.trace # <<>>
    /\ l3.trace[Len(l3.trace)] = "precommit!"
    /\ l3.last.error = "fabric"
    /\ l3.ifaces # {}

\* C36, as stated: whenever the parent's removal raises after the fabric
\* removal has returned, the call leaves the fabric without the association
\* it removed.
C36_FabricWithoutAssociation ==
    [][(/\ l3.call.api = "remove_router_interface"
        /\ l3.pc = "super_remove"
        /\ l3'.pc = "idle"
        /\ l3'.last.raised)
          => LET row == IF l3.call.info.key = "subnet_id" THEN SubnetRow(l3.call.info.id)
                        ELSE IfaceRow(l3.call.info.id)
                 removed == << NameMapper("tenant", row.tenant_id),
                               NameMapper("router", l3.call.router_id),
                               NameMapper("network", row.network_id) >>
             IN  [kind |-> "router_intf", args |-> removed] \notin fabric']_vars

\* C37: a step of a resync pass, of _sync_base or of _sync_router, leaves
\* the networks, subnets, ports, routers and router interfaces as they are,
\* takes nothing out of the fabric, and has made only ensure, add and
\* get calls of the fabric; a replay of a router interface that raised
\* leaves the interface attached.
C37_PassOnlyAdds ==
    [][LET Additive(log) ==
               \A k \in 1..Len(log) : \A j \in 1..Len(log[k].invoked) :
                  log[k].invoked[j].op \in
                     {"ensure_bd_created_on_apic", "ensure_epg_created_for_network",
                      "ensure_subnet_created_on_apic", "ensure_path_created_for_port",
                      "ensure_external_routed_network_created",
                      "ensure_logical_node_profile_created", "ensure_static_route_created",
                      "ensure_external_epg_created", "ensure_context_enforced",
                      "ensure_external_epg_consumed_contract",
                      "ensure_external_epg_provided_contract", "get_router_contract",
                      "add_router_interface"}
           BaseStep == PassRunning /\ pass' # pass
           RouterStep == l3.pass.phase \in {"start", "ports"} /\ l3'.pass # l3.pass
       IN  (BaseStep \/ RouterStep)
             => /\ db' = db
                /\ l3'.ifaces = l3.ifaces
                /\ l3'.routers = l3.routers
                /\ fabric \subseteq fabric'
                /\ Additive(pass'.log)
                /\ Additive(l3'.pass.log)]_vars

\* a pass of _sync_base has ended after replaying the gateway port, and so
\* has made several fabric calls in one replay
C37_BasePassEnded ==
    /\ pass.phase = "done"
    /\ \E k \in 1..Len(pass.log) : Len(pass.log[k].invoked) > 2
    /\ fabric # {}

\* a pass of _sync_router has ended in which a replay raised
C37_RouterReplayRaised ==
    /\ l3.pass.phase = "done"
    /\ \E k \in 1..Len(l3.pass.log) :
         l3.pass.log[k].raised /\ l3.pass.log[k].id \in l3.ifaces

\* C38: a create or update of a compute-prefixed or dhcp port bound to a
\* segment whose network type is not vlan makes exactly one fabric call,
\* the path attachment with no segmentation id; a path attachment carries
\* a segmentation id only for a vlan segment, and then the segment's.
C38_SegmentOnlyForVlan ==
    (/\ hist.last.ran
     /\ hist.last.hook \in {"create_port_postcommit", "update_port_postcommit"})
      => LET context == hist.last.ctx
             path == \/ StartsWithCompute(context.current.device_owner)
                     \/ context.current.device_owner = DEVICE_OWNER_DHCP
         IN  /\ (/\ path
                 /\ context.bound_segment.bound
                 /\ context.bound_segment.network_type # TYPE_VLAN)
                  => /\ Len(hist.last.invoked) = 1
                     /\ hist.last.invoked[1].op = "ensure_path_created_for_port"
                     /\ hist.last.invoked[1].args[3] = context.current.host_id
                     /\ hist.last.invoked[1].args[4] = None
                     /\ hist.last.raised => faults > 0
             /\ \A k \in 1..Len(hist.last.invoked) :
                  (/\ hist.last.invoked[k].op = "ensure_path_created_for_port"
                   /\ hist.last.invoked[k].args[4] # None)
                    => /\ context.bound_segment.network_type = TYPE_VLAN
                       /\ hist.last.invoked[k].args[4]
                            = context.bound_segment.segmentation_id

\* a dhcp port bound to a vxlan segment has been created
C38_VxlanDhcpCreated ==
    /\ hist.last.ran
    /\ hist.last.hook = "create_port_postcommit"
    /\ hist.last.ctx.current.device_owner = DEVICE_OWNER_DHCP
    /\ hist.last.ctx.bound_segment = Bound(<<"vxlan">>, Val("200"))
    /\ Len(hist.last.invoked) = 1
    /\ ~hist.last.raised

\* C39: the calls of the driver start the base resync only and leave the
\* plugin's synchronizer unset and the fabric without router interfaces;
\* the calls of the plugin start the router resync only and leave the
\* driver's synchronizer unset and the fabric without bridge domains and
\* EPGs; a read of the router API passes the plugin's gate like any other
\* call, and with interval 0 the first call's body follows the router resync.
C39_GatesIndependent ==
    LET Reads == {"get_router", "get_routers", "get_routers_count"}
    IN  /\ instance = "driver" =>
              /\ ~l3.synchronizer
              /\ l3.syncStarts = 0
              /\ l3.loop = "none"
              /\ l3.pass.phase = "none"
              /\ \A o \in fabric : o.kind # "router_intf"
        /\ instance = "plugin" =>
              /\ ~synchronizer
              /\ syncStarts = 0
              /\ loop = "none"
              /\ pass = NoPass
              /\ \A o \in fabric : o.kind \notin {"bd", "epg"}
        /\ l3.call.api \in Reads =>
              /\ l3.synchronizer
              /\ l3.syncStarts >= 1
              /\ (sync(interval) = "once" /\ hist.events = 1 /\ l3.pc \in {"super", "idle"})
                    => l3.trace # <<>> /\ l3.trace[1] \in {"sync_router", "sync_router!"}
              /\ (sync(interval) = "periodic" /\ hist.events = 1) => l3.loop # "none"

\* the first call of a fresh plugin, a read, has ended after its router
\* resync added the interface of r1 on network n1 to the fabric, which has
\* no bridge domain and no EPG for n1
C39_ReadAddedInterface ==
    /\ instance = "plugin"
    /\ hist.events = 1
    /\ l3.call.api = "get_routers"
    /\ l3.pc = "idle"
    /\ ~l3.last.raised
    /\ Obj("router_intf", << <<"tenant", "t1">>, <<"router", "r1">>,
                             <<"network", "n1">> >>) \in fabric
    /\ \A o \in fabric : o.kind \notin {"bd", "epg"}

====
